---------------------------- MODULE Spec2Model ----------------------------
(***************************************************************************)
(* A model of the mvp assembler's grammar layer: the parsers of            *)
(* src/src/parser/grammar.rs and the AST of src/src/parser/ast.rs.         *)
(*                                                                         *)
(* The grammar is written with nom 4 macros over CompleteStr.  Every       *)
(* parser is modelled as an operator from the input text (a sequence of    *)
(* characters, each a string naming one character) to a result:            *)
(*     Ok(rest, val)    - Ok((rest, val)) of the code                      *)
(*     Error(at, kind)  - Err(nom::Err::Error(Code(at, kind)))             *)
(* The macros are expanded by hand.  ws!(p) is nom's sep!(sp, p) followed  *)
(* by one more sp: sep! rewrites do_parse!, pair!, delimited!, alt! and    *)
(* separated_list! so that sp runs before each of their parts, and wraps   *)
(* every other combinator (fold_many0! among them) in ONE leading sp,      *)
(* leaving that combinator's own parts as they are written.                *)
(***************************************************************************)
EXTENDS Integers, Sequences, FiniteSets, TLC

VARIABLES
    toks,     \* the text handed to the parser, kept as the lexemes it was written with
    entry,    \* the entry point that was called on it ("none" before the call)
    result,   \* what that entry point returned
    calls,    \* the calls made so far: entry point, input, result
    stack     \* the parsers entered and not yet left, while a call is followed
              \* step by step

vars == <<toks, entry, result, calls, stack>>

-----------------------------------------------------------------------------
(* Characters and the character classes the code asks about.               *)

Digits == {"0", "1", "2", "3", "4", "5", "6", "7", "8", "9"}

HexLetters == {"a", "b", "c", "d", "e", "f", "A", "B", "C", "D", "E", "F"}

AsciiLetters ==
    {"a", "b", "c", "d", "e", "f", "g", "h", "i", "j", "k", "l", "m",
     "n", "o", "p", "q", "r", "s", "t", "u", "v", "w", "x", "y", "z",
     "A", "B", "C", "D", "E", "F", "G", "H", "I", "J", "K", "L", "M",
     "N", "O", "P", "Q", "R", "S", "T", "U", "V", "W", "X", "Y", "Z"}

\* Characters outside ASCII are named by their code point: U+4E16 and U+754C
\* are letters; U+FE4F, a connector, continues an identifier and starts none.
XidStartChars == AsciiLetters \cup {"U+4E16", "U+754C"}

XidContinueChars == XidStartChars \cup Digits \cup {"_", "U+FE4F"}

\* UnicodeXID::is_xid_start / is_xid_continue on the characters of the model.
is_xid_start(c) == c \in XidStartChars

is_xid_continue(c) == c \in XidContinueChars

valid_identifier_first_character(c) == c = "!" \/ c = "_" \/ is_xid_start(c)

\* The later characters with ! among them.
valid_later_character_or_bang(c) == is_xid_continue(c) \/ c = "_" \/ c = "!"

valid_later_character(c) == is_xid_continue(c) \/ c = "_"

OPERATORS == {"+", "-", "*", "/"}

\* The characters nom's sp (eat_separator!(" \t\r\n")) skips.
Separators == {" ", "\t", "\r", "\n"}

-----------------------------------------------------------------------------
(* Results.                                                                *)

Ok(rest, val) == [ok |-> TRUE, rest |-> rest, val |-> val]

Error(at, kind) == [ok |-> FALSE, at |-> at, kind |-> kind]

Drop(i, n) == SubSeq(i, n + 1, Len(i))

Take(i, n) == SubSeq(i, 1, n)

-----------------------------------------------------------------------------
(* The AST of src/src/parser/ast.rs.                                       *)

\* Option<T>
None == <<>>

Some(x) == <<x>>

\* A u32 is kept as two 16-bit limbs, <<high, low>>, so that every value up to
\* u32::MAX is a value of the model.
Limb == 65536

U32(n) == <<n \div Limb, n % Limb>>

VariableName(name) == name

Named(name) == [tag |-> "Named", name |-> name]

Relative(n) == [tag |-> "Relative", n |-> n]

Number(value, width) == [tag |-> "Number", value |-> value, width |-> width]

Variable(label) == [tag |-> "Variable", label |-> label]

Binary(op, first, another) ==
    [tag |-> "Binary", op |-> op, left |-> first, right |-> another]

Call(name, args) == [tag |-> "Call", name |-> name, args |-> args]

Mode(tag) == [tag |-> tag]

Move(second) == [tag |-> "Move", second |-> second]

Opcode(name, width, mode, value) ==
    [name |-> name, width |-> width, mode |-> mode, value |-> value]

StatementOpcode(opcode) == [tag |-> "Opcode", opcode |-> opcode]

StatementAssignment(name, value) ==
    [tag |-> "Assignment", name |-> name, value |-> value]

-----------------------------------------------------------------------------
(* nom's primitives on CompleteStr.                                        *)

RECURSIVE SpanLen(_, _, _)
\* The length of the longest prefix of i, from position n + 1 on, whose
\* characters are all in set.
SpanLen(i, set, n) ==
    IF n < Len(i) /\ i[n + 1] \in set THEN SpanLen(i, set, n + 1) ELSE n

\* sp: skips the separators at the front; never fails.
sp(i) == Drop(i, SpanLen(i, Separators, 0))

\* tag!(t) for a one-character tag.
tag(i, t) ==
    IF Len(i) > 0 /\ i[1] = t THEN Ok(Tail(i), t) ELSE Error(i, "Tag")

\* one_of!(set)
one_of(i, set) ==
    IF Len(i) = 0 THEN Error(i, "Eof")
    ELSE IF i[1] \in set THEN Ok(Tail(i), i[1])
    ELSE Error(i, "OneOf")

\* nom::digit: one or more ASCII digits.
digit(i) ==
    LET n == SpanLen(i, Digits, 0)
    IN  IF n = 0 THEN Error(i, "Digit") ELSE Ok(Drop(i, n), Take(i, n))

\* nom::hex_digit: one or more hexadecimal digits.
hex_digit(i) ==
    LET n == SpanLen(i, Digits \cup HexLetters, 0)
    IN  IF n = 0 THEN Error(i, "HexDigit") ELSE Ok(Drop(i, n), Take(i, n))

-----------------------------------------------------------------------------
(* Integer conversion: u32::from_str and u32::from_str_radix.              *)

LowerHex ==
    <<"0", "1", "2", "3", "4", "5", "6", "7", "8", "9", "a", "b", "c", "d", "e", "f">>

UpperHex ==
    <<"0", "1", "2", "3", "4", "5", "6", "7", "8", "9", "A", "B", "C", "D", "E", "F">>

\* char::to_digit
to_digit(c) == CHOOSE v \in 0..15 : c = LowerHex[v + 1] \/ c = UpperHex[v + 1]

RECURSIVE from_str_radix_loop_wrapping(_, _, _, _)
\* The loop with unchecked arithmetic: the value wraps modulo 2^32.
from_str_radix_loop_wrapping(s, radix, k, acc) ==
    IF k > Len(s) THEN [ok |-> TRUE, val |-> acc]
    ELSE LET low  == acc[2] * radix + to_digit(s[k])
             high == acc[1] * radix + (low \div Limb)
         IN  from_str_radix_loop_wrapping(s, radix, k + 1, <<high % Limb, low % Limb>>)

RECURSIVE from_str_radix_loop(_, _, _, _)
\* The loop of from_str_radix over the digits s[k..]: the accumulator is
\* multiplied by the radix and the digit added, both checked; an overflow
\* of the 32 bits ends the conversion with an error.
from_str_radix_loop(s, radix, k, acc) ==
    IF k > Len(s) THEN [ok |-> TRUE, val |-> acc]
    ELSE LET low  == acc[2] * radix + to_digit(s[k])
             high == acc[1] * radix + (low \div Limb)
         IN  IF high >= Limb THEN [ok |-> FALSE, val |-> "PosOverflow"]
             ELSE from_str_radix_loop(s, radix, k + 1, <<high, low % Limb>>)

from_str_radix(s, radix) ==
    IF Len(s) = 0 THEN [ok |-> FALSE, val |-> "Empty"]
    ELSE from_str_radix_loop(s, radix, 1, <<0, 0>>)

from_str(s) == from_str_radix(s, 10)

-----------------------------------------------------------------------------
(* Lexical parsers.                                                        *)

\* The named! parsers call one another by name through parse, defined after
\* the last of them.
RECURSIVE parse(_, _)

RECURSIVE identifier_end(_, _)
\* The for loop of identifier: the position of the first character after
\* pos that is not a valid later character, or the length of the input.
identifier_end(input, pos) ==
    IF pos < Len(input) /\ valid_later_character(input[pos + 1])
    THEN identifier_end(input, pos + 1)
    ELSE pos

\* identifier that fails once a call before it has succeeded.
identifier_exhausted(input) ==
    IF result.ok \/ Len(input) = 0 \/ ~valid_identifier_first_character(input[1])
    THEN Error(input, "Alpha")
    ELSE LET pos == identifier_end(input, 1)
         IN  Ok(Drop(input, pos), Take(input, pos))

\* char::len_utf8: the characters outside ASCII used here take three bytes.
len_utf8(c) == IF c \in {"U+4E16", "U+754C", "U+FE4F"} THEN 3 ELSE 1

RECURSIVE ByteLen(_)
\* str::len: the length of a text in bytes.
ByteLen(text) ==
    IF text = <<>> THEN 0 ELSE len_utf8(Head(text)) + ByteLen(Tail(text))

\* char_indices: the byte offset at which the k-th character begins.
char_index(input, k) == ByteLen(Take(input, k - 1))

\* str::is_char_boundary
is_char_boundary(input, pos) ==
    \E k \in 0..Len(input) : ByteLen(Take(input, k)) = pos

\* A panic: the call does not return.
Panic == Error(<<>>, "panic")

\* (&input[pos..], &input[..pos]): slicing a str panics unless the byte
\* offset is a character boundary.
slice_at(input, pos) ==
    IF ~is_char_boundary(input, pos) THEN Panic
    ELSE LET k == CHOOSE k \in 0..Len(input) : ByteLen(Take(input, k)) = pos
         IN  Ok(Drop(input, k), Take(input, k))

\* identifier that returns an empty name where identifier fails.
identifier_possibly_empty(input) ==
    IF Len(input) = 0 \/ ~valid_identifier_first_character(input[1])
    THEN Ok(input, <<>>)
    ELSE LET n == identifier_end(input, 1)
         IN  IF n = Len(input) THEN Ok(<<>>, input)
             ELSE slice_at(input, char_index(input, n + 1))

\* identifier that slices at the number of characters read, not at their
\* byte offset.
identifier_by_characters(input) ==
    IF Len(input) = 0 \/ ~valid_identifier_first_character(input[1])
    THEN Error(input, "Alpha")
    ELSE LET n == identifier_end(input, 1)
         IN  IF n = Len(input) THEN Ok(<<>>, input) ELSE slice_at(input, n)

\* identifier: the first character must start an identifier; the identifier
\* ends before the first later character that does not continue one, at the
\* byte offset char_indices gives for that character.
identifier(input) ==
    IF Len(input) = 0 \/ ~valid_identifier_first_character(input[1])
    THEN Error(input, "Alpha")
    ELSE LET n == identifier_end(input, 1)
         IN  IF n = Len(input) THEN Ok(<<>>, input)
             ELSE slice_at(input, char_index(input, n + 1))

\* number giving a literal of two digits the width of one byte.
number_with_hex_width(i) ==
    LET d == digit(sp(i))
    IN  IF ~d.ok THEN d
        ELSE LET v == from_str(d.val)
             IN  IF ~v.ok THEN Error(i, "MapRes")
                 ELSE Ok(sp(d.rest),
                         Number(v.val, IF Len(d.val) = 2 THEN "OneByte" ELSE "None"))

\* number: map!(map_res!(ws!(nom::digit), u32::from_str), Number{value, None})
number(i) ==
    LET d == digit(sp(i))
    IN  IF ~d.ok THEN d
        ELSE LET v == from_str(d.val)
             IN  IF ~v.ok THEN Error(i, "MapRes")
                 ELSE Ok(sp(d.rest), Number(v.val, "None"))

\* The width decided by how large the run is rather than by its exact length.
hex_width_for_length_at_most(length) ==
    CASE length <= 2 -> "OneByte"
      [] length <= 4 -> "TwoBytes"
      [] OTHER       -> "None"

hex_width_for_length(length) ==
    CASE length = 2 -> "OneByte"
      [] length = 4 -> "TwoBytes"
      [] OTHER      -> "None"

\* hex_number: ws!(tag!("$") >> map_res!(nom::hex_digit, from_str_radix 16))
hex_number(i) ==
    LET t == tag(sp(sp(i)), "$")
    IN  IF ~t.ok THEN t
        ELSE LET i1 == sp(t.rest)
                 d  == hex_digit(i1)
             IN  IF ~d.ok THEN d
                 ELSE LET v == from_str_radix(d.val, 16)
                      IN  IF ~v.ok THEN Error(i1, "MapRes")
                          ELSE Ok(sp(d.rest),
                                  Number(v.val, hex_width_for_length(Len(d.val))))

\* label: map!(identifier, Label::Named)
label(i) ==
    LET n == parse("identifier", i)
    IN  IF ~n.ok THEN n ELSE Ok(n.rest, Named(VariableName(n.val)))

\* variable: map!(label, Expression::Variable)
variable(i) ==
    LET l == parse("label", i)
    IN  IF ~l.ok THEN l ELSE Ok(l.rest, Variable(l.val))

-----------------------------------------------------------------------------
(* The expression grammar.                                                 *)

RECURSIVE expression_fold(_, _), expression_fold_right(_, _), term_fold(_, _),
          separated_list_rest(_, _), separated_list_rest_trailing(_, _)

\* The loop of a separated list that consumes a separator no element follows.
separated_list_rest_trailing(input, res) ==
    LET s == tag(sp(input), ",")
    IN  IF ~s.ok THEN Ok(input, res)
        ELSE LET e == parse("expression", sp(s.rest))
             IN  IF ~e.ok THEN Ok(s.rest, res)
                 ELSE IF Len(e.rest) = Len(s.rest) THEN Ok(input, res)
                 ELSE separated_list_rest_trailing(e.rest, Append(res, e.val))

\* The separator-and-element loop of separated_list!(tag!(","), expression)
\* inside ws!: after the elements res, up to input.  A separator that no
\* element follows is not consumed.
separated_list_rest(input, res) ==
    LET s == tag(sp(input), ",")
    IN  IF ~s.ok THEN Ok(input, res)
        ELSE LET e == parse("expression", sp(s.rest))
             IN  IF ~e.ok THEN Ok(input, res)
                 ELSE IF Len(e.rest) = Len(s.rest) THEN Ok(input, res)
                 ELSE separated_list_rest(e.rest, Append(res, e.val))

\* separated_list!(tag!(","), expression) inside ws!
separated_list(i) ==
    LET e == parse("expression", sp(i))
    IN  IF ~e.ok THEN Ok(i, <<>>)
        ELSE IF Len(e.rest) = Len(i) THEN Error(i, "SeparatedList")
        ELSE separated_list_rest(e.rest, <<e.val>>)

\* call: ws!(identifier >> delimited!("(", separated_list!(",", expression), ")"))
call(i) ==
    LET n == parse("identifier", sp(sp(i)))
    IN  IF ~n.ok THEN n
        ELSE LET open == tag(sp(sp(n.rest)), "(")
             IN  IF ~open.ok THEN open
                 ELSE LET parts == separated_list(sp(open.rest))
                      IN  IF ~parts.ok THEN parts
                          ELSE LET close == tag(sp(parts.rest), ")")
                               IN  IF ~close.ok THEN close
                                   ELSE Ok(sp(close.rest),
                                           Call(VariableName(n.val), parts.val))

\* paren_expression with a term, not an expression, between the parentheses.
paren_expression_of_term(i) ==
    LET open == tag(sp(sp(i)), "(")
    IN  IF ~open.ok THEN open
        ELSE LET e == parse("term", sp(open.rest))
             IN  IF ~e.ok THEN e
                 ELSE LET close == tag(sp(e.rest), ")")
                      IN  IF ~close.ok THEN close
                          ELSE Ok(sp(close.rest), e.val)

\* paren_expression: ws!(delimited!(tag!("("), expression, tag!(")")))
paren_expression(i) ==
    LET open == tag(sp(sp(i)), "(")
    IN  IF ~open.ok THEN open
        ELSE LET e == parse("expression", sp(open.rest))
             IN  IF ~e.ok THEN e
                 ELSE LET close == tag(sp(e.rest), ")")
                      IN  IF ~close.ok THEN close
                          ELSE Ok(sp(close.rest), e.val)

\* top_expression without its last alternative, variable.
top_expression_without_variable(i) ==
    LET p == parse("paren_expression", i)
    IN  IF p.ok THEN p
        ELSE LET n == parse("number", i)
             IN  IF n.ok THEN n
                 ELSE LET h == parse("hex_number", i)
                      IN  IF h.ok THEN h
                          ELSE LET c == parse("call", i)
                               IN  IF c.ok THEN c ELSE Error(i, "Alt")

\* top_expression: alt!(paren_expression | number | hex_number | call | variable)
top_expression(i) ==
    LET p == parse("paren_expression", i)
    IN  IF p.ok THEN p
        ELSE LET n == parse("number", i)
             IN  IF n.ok THEN n
                 ELSE LET h == parse("hex_number", i)
                      IN  IF h.ok THEN h
                          ELSE LET c == parse("call", i)
                               IN  IF c.ok THEN c
                                   ELSE LET v == parse("variable", i)
                                        IN  IF v.ok THEN v ELSE Error(i, "Alt")

\* The operator of term's pair!: alt!(tag!("*") => Mul | tag!("/") => Div)
term_operator(i) ==
    IF tag(i, "*").ok THEN Ok(Tail(i), "Mul")
    ELSE IF tag(i, "/").ok THEN Ok(Tail(i), "Div")
    ELSE Error(i, "Alt")

\* The fold_many0! of term: pair!(operator, top_expression) applied as
\* written, as long as it succeeds, folding to the left.
term_fold(input, res) ==
    LET op == term_operator(input)
    IN  IF ~op.ok THEN Ok(input, res)
        ELSE LET another == parse("top_expression", op.rest)
             IN  IF ~another.ok THEN Ok(input, res)
                 ELSE term_fold(another.rest, Binary(op.val, res, another.val))

\* term: do_parse!(init: top_expression >> res: fold_many0!(...) >> (res))
term(i) ==
    LET init == parse("top_expression", i)
    IN  IF ~init.ok THEN init ELSE term_fold(init.rest, init.val)

\* The operator of expression's pair!: alt!(tag!("+") => Add | tag!("-") => Sub)
expression_operator(i) ==
    IF tag(i, "+").ok THEN Ok(Tail(i), "Add")
    ELSE IF tag(i, "-").ok THEN Ok(Tail(i), "Sub")
    ELSE Error(i, "Alt")

\* The fold of expression folding to the right.
expression_fold_right(input, res) ==
    LET op == expression_operator(input)
    IN  IF ~op.ok THEN Ok(input, res)
        ELSE LET another == parse("term", op.rest)
             IN  IF ~another.ok THEN Ok(input, res)
                 ELSE LET others == expression_fold_right(another.rest, another.val)
                      IN  Ok(others.rest, Binary(op.val, res, others.val))

RECURSIVE expression_fold_greedy(_, _)
\* The fold that keeps an operator it has read when no term follows it.
expression_fold_greedy(input, res) ==
    LET op == expression_operator(input)
    IN  IF ~op.ok THEN Ok(input, res)
        ELSE LET another == parse("term", op.rest)
             IN  IF ~another.ok THEN Ok(op.rest, res)
                 ELSE expression_fold_greedy(another.rest,
                                             Binary(op.val, res, another.val))

\* The fold_many0! of expression: pair!(operator, term) applied as written.
expression_fold(input, res) ==
    LET op == expression_operator(input)
    IN  IF ~op.ok THEN Ok(input, res)
        ELSE LET another == parse("term", op.rest)
             IN  IF ~another.ok THEN Ok(input, res)
                 ELSE expression_fold(another.rest, Binary(op.val, res, another.val))

\* expression: ws!(do_parse!(init: term >> res: fold_many0!(...) >> (res))):
\* sp before term, sp before the fold_many0! as a whole, sp at the end.
expression(i) ==
    LET init == parse("term", sp(sp(i)))
    IN  IF ~init.ok THEN init
        ELSE LET res == expression_fold(sp(init.rest), init.val)
             IN  Ok(sp(res.rest), res.val)

-----------------------------------------------------------------------------
(* The instruction grammar: one parser per addressing mode.  Each returns  *)
(* the pair <<expression, mode>>.                                          *)

\* immediate: ws!(tag!("#") >> expression)
immediate(i) ==
    LET t == tag(sp(sp(i)), "#")
    IN  IF ~t.ok THEN t
        ELSE LET e == parse("expression", sp(t.rest))
             IN  IF ~e.ok THEN e
                 ELSE Ok(sp(e.rest), <<e.val, Mode("Immediate")>>)

\* indirect as it would be without the not!(one_of!(OPERATORS)) lookahead.
indirect_without_lookahead(i) ==
    LET open == tag(sp(sp(i)), "(")
    IN  IF ~open.ok THEN open
        ELSE LET e == parse("expression", sp(open.rest))
             IN  IF ~e.ok THEN e
                 ELSE LET close == tag(sp(e.rest), ")")
                      IN  IF ~close.ok THEN close
                          ELSE Ok(sp(close.rest), <<e.val, Mode("Indirect")>>)

\* indirect: ws!(tag!("(") >> expression >> tag!(")") >> not!(one_of!(OPERATORS)))
indirect(i) ==
    LET open == tag(sp(sp(i)), "(")
    IN  IF ~open.ok THEN open
        ELSE LET e == parse("expression", sp(open.rest))
             IN  IF ~e.ok THEN e
                 ELSE LET close == tag(sp(e.rest), ")")
                      IN  IF ~close.ok THEN close
                          ELSE LET i1 == sp(close.rest)
                               IN  IF one_of(i1, OPERATORS).ok THEN Error(i1, "Not")
                                   ELSE Ok(sp(i1), <<e.val, Mode("Indirect")>>)

\* x_indirect with the index register written after the parenthesis.
x_indirect_index_outside(i) ==
    LET open == tag(sp(sp(i)), "(")
    IN  IF ~open.ok THEN open
        ELSE LET e == parse("expression", sp(open.rest))
             IN  IF ~e.ok THEN e
                 ELSE LET close == tag(sp(e.rest), ")")
                      IN  IF ~close.ok THEN close
                          ELSE LET comma == tag(sp(close.rest), ",")
                               IN  IF ~comma.ok THEN comma
                                   ELSE LET y == one_of(sp(comma.rest), {"x", "X"})
                                        IN  IF ~y.ok THEN y
                                            ELSE Ok(sp(y.rest),
                                                    <<e.val, Mode("XIndirect")>>)

\* x_indirect: ws!(tag!("(") >> expression >> tag!(",") >> one_of!("xX") >> tag!(")"))
x_indirect(i) ==
    LET open == tag(sp(sp(i)), "(")
    IN  IF ~open.ok THEN open
        ELSE LET e == parse("expression", sp(open.rest))
             IN  IF ~e.ok THEN e
                 ELSE LET comma == tag(sp(e.rest), ",")
                      IN  IF ~comma.ok THEN comma
                          ELSE LET x == one_of(sp(comma.rest), {"x", "X"})
                               IN  IF ~x.ok THEN x
                                   ELSE LET close == tag(sp(x.rest), ")")
                                        IN  IF ~close.ok THEN close
                                            ELSE Ok(sp(close.rest),
                                                    <<e.val, Mode("XIndirect")>>)

\* indirect_y: ws!(tag!("(") >> expression >> tag!(")") >> tag!(",") >> one_of!("yY"))
indirect_y(i) ==
    LET open == tag(sp(sp(i)), "(")
    IN  IF ~open.ok THEN open
        ELSE LET e == parse("expression", sp(open.rest))
             IN  IF ~e.ok THEN e
                 ELSE LET close == tag(sp(e.rest), ")")
                      IN  IF ~close.ok THEN close
                          ELSE LET comma == tag(sp(close.rest), ",")
                               IN  IF ~comma.ok THEN comma
                                   ELSE LET y == one_of(sp(comma.rest), {"y", "Y"})
                                        IN  IF ~y.ok THEN y
                                            ELSE Ok(sp(y.rest),
                                                    <<e.val, Mode("IndirectY")>>)

\* stack_indirect_y: ws!(tag!("(") >> expression >> tag!(",") >> one_of!("sS") >>
\*                       tag!(")") >> tag!(",") >> one_of!("yY"))
stack_indirect_y(i) ==
    LET open == tag(sp(sp(i)), "(")
    IN  IF ~open.ok THEN open
        ELSE LET e == parse("expression", sp(open.rest))
             IN  IF ~e.ok THEN e
                 ELSE LET comma == tag(sp(e.rest), ",")
                      IN  IF ~comma.ok THEN comma
                          ELSE LET s == one_of(sp(comma.rest), {"s", "S"})
                               IN  IF ~s.ok THEN s
                                   ELSE LET close == tag(sp(s.rest), ")")
                                            comma2 == tag(sp(close.rest), ",")
                                            y == one_of(sp(comma2.rest), {"y", "Y"})
                                        IN  IF ~close.ok THEN close
                                            ELSE IF ~comma2.ok THEN comma2
                                            ELSE IF ~y.ok THEN y
                                            ELSE Ok(sp(y.rest),
                                                    <<e.val, Mode("StackIndirectY")>>)

\* long_indirect: ws!(tag!("[") >> expression >> tag!("]"))
long_indirect(i) ==
    LET open == tag(sp(sp(i)), "[")
    IN  IF ~open.ok THEN open
        ELSE LET e == parse("expression", sp(open.rest))
             IN  IF ~e.ok THEN e
                 ELSE LET close == tag(sp(e.rest), "]")
                      IN  IF ~close.ok THEN close
                          ELSE Ok(sp(close.rest), <<e.val, Mode("LongIndirect")>>)

\* long_indirect_y: ws!(res: long_indirect >> tag!(",") >> one_of!("yY"))
long_indirect_y(i) ==
    LET res == parse("long_indirect", sp(sp(i)))
    IN  IF ~res.ok THEN res
        ELSE LET comma == tag(sp(res.rest), ",")
             IN  IF ~comma.ok THEN comma
                 ELSE LET y == one_of(sp(comma.rest), {"y", "Y"})
                      IN  IF ~y.ok THEN y
                          ELSE Ok(sp(y.rest), <<res.val[1], Mode("LongIndirectY")>>)

\* address_pair: do_parse!(first: expression >> tag!(",") >> second: expression)
address_pair(i) ==
    LET first == parse("expression", i)
    IN  IF ~first.ok THEN first
        ELSE LET comma == tag(first.rest, ",")
             IN  IF ~comma.ok THEN comma
                 ELSE LET second == parse("expression", comma.rest)
                      IN  IF ~second.ok THEN second
                          ELSE Ok(second.rest, <<first.val, Move(second.val)>>)

\* address that takes the name A for the accumulator.
address_or_accumulator(i) ==
    LET e == parse("expression", i)
    IN  IF ~e.ok THEN e
        ELSE IF e.val = Variable(Named(VariableName(<<"A">>)))
        THEN Ok(e.rest, <<e.val, Mode("Accumulator")>>)
        ELSE Ok(e.rest, <<e.val, Mode("Address")>>)

\* address: do_parse!(expression: expression >> (expression, Address))
address(i) ==
    LET e == parse("expression", i)
    IN  IF ~e.ok THEN e ELSE Ok(e.rest, <<e.val, Mode("Address")>>)

\* The order with address tried before address_pair.
OperandOrderAddressFirst ==
    <<"indirect_y", "indirect", "x_indirect", "address", "address_pair",
      "immediate", "long_indirect_y", "long_indirect", "stack_indirect_y">>

\* The order with long_indirect tried before long_indirect_y.
OperandOrderLongFirst ==
    <<"indirect_y", "indirect", "x_indirect", "address_pair", "address",
      "immediate", "long_indirect", "long_indirect_y", "stack_indirect_y">>

\* The order in which opcode's alt! tries the addressing modes.
OperandOrder ==
    <<"indirect_y", "indirect", "x_indirect", "address_pair", "address",
      "immediate", "long_indirect_y", "long_indirect", "stack_indirect_y">>

RECURSIVE operand_alt_or_implied(_, _)
\* The alt! with a last alternative that accepts anything and consumes nothing.
operand_alt_or_implied(i, k) ==
    IF k > Len(OperandOrder) THEN Ok(i, <<Number(U32(0), "None"), Mode("Implied")>>)
    ELSE LET r == parse(OperandOrder[k], i)
         IN  IF r.ok THEN r ELSE operand_alt_or_implied(i, k + 1)

RECURSIVE operand_alt_consuming(_, _)
\* The alt! that hands the next parser the input from where the last one
\* failed.
operand_alt_consuming(i, k) ==
    IF k > Len(OperandOrder) THEN Error(i, "Alt")
    ELSE LET r == parse(OperandOrder[k], i)
         IN  IF r.ok THEN r ELSE operand_alt_consuming(r.at, k + 1)

RECURSIVE operand_alt(_, _)
\* alt!: the result of the first parser, from the k-th of OperandOrder on,
\* that succeeds on i; every parser is given the same i.
operand_alt(i, k) ==
    IF k > Len(OperandOrder) THEN Error(i, "Alt")
    ELSE LET r == parse(OperandOrder[k], i)
         IN  IF r.ok THEN r ELSE operand_alt(i, k + 1)

\* The width suffix: opt!(ws!(pair!(tag!("."), one_of!("bBwWlL"))))
width_suffix(i) ==
    LET dot == tag(sp(sp(i)), ".")
    IN  IF ~dot.ok THEN Ok(i, None)
        ELSE LET letter == one_of(sp(dot.rest), {"b", "B", "w", "W", "l", "L"})
             IN  IF ~letter.ok THEN Ok(i, None)
                 ELSE Ok(sp(letter.rest), Some(letter.val))

\* The match with the widths of w and l exchanged.
width_of_letter_exchanged(letter) ==
    CASE letter \in {"b", "B"} -> 1
      [] letter \in {"w", "W"} -> 3
      [] letter \in {"l", "L"} -> 2
      [] OTHER                 -> "unreachable"

\* The match on the width letter.
width_of_letter(letter) ==
    CASE letter \in {"b", "B"} -> 1
      [] letter \in {"w", "W"} -> 2
      [] letter \in {"l", "L"} -> 3
      [] OTHER                 -> "unreachable"

\* opcode: identifier >> width suffix >> alt!(the nine operand parsers)
opcode(i) ==
    LET name == parse("identifier", i)
    IN  IF ~name.ok THEN name
        ELSE LET mode == width_suffix(name.rest)
                 res  == operand_alt(mode.rest, 1)
             IN  IF ~res.ok THEN res
                 ELSE Ok(res.rest,
                         Opcode(name.val,
                                IF mode.val = None THEN None
                                ELSE Some(width_of_letter(mode.val[1])),
                                res.val[2], res.val[1]))

\* statement: ws!(alt!(opcode => Statement::Opcode))
statement(i) ==
    LET o == parse("opcode", sp(sp(i)))
    IN  IF ~o.ok THEN Error(sp(i), "Alt")
        ELSE Ok(sp(o.rest), StatementOpcode(o.val))

\* The assignment whose value is read by term instead of expression.
assignment_of_term(i) ==
    LET name == parse("identifier", sp(sp(i)))
    IN  IF ~name.ok THEN name
        ELSE LET eq == tag(sp(name.rest), "=")
             IN  IF ~eq.ok THEN eq
                 ELSE LET value == parse("term", sp(eq.rest))
                      IN  IF ~value.ok THEN value
                          ELSE Ok(sp(value.rest),
                                  StatementAssignment(VariableName(name.val), value.val))

\* assignment: ws!(name: identifier >> tag!("=") >> value: expression)
assignment(i) ==
    LET name == parse("identifier", sp(sp(i)))
    IN  IF ~name.ok THEN name
        ELSE LET eq == tag(sp(name.rest), "=")
             IN  IF ~eq.ok THEN eq
                 ELSE LET value == parse("expression", sp(eq.rest))
                      IN  IF ~value.ok THEN value
                          ELSE Ok(sp(value.rest),
                                  StatementAssignment(VariableName(name.val), value.val))

------------------------------------------------------------------------\* The named! parsers by name: the parser of that name, applied to i.
parse(name, i) ==
    CASE name = "identifier"       -> identifier(i)
      [] name = "number"           -> number(i)
      [] name = "hex_number"       -> hex_number(i)
      [] name = "label"            -> label(i)
      [] name = "variable"         -> variable(i)
      [] name = "call"             -> call(i)
      [] name = "paren_expression" -> paren_expression(i)
      [] name = "top_expression"   -> top_expression(i)
      [] name = "term"             -> term(i)
      [] name = "expression"       -> expression(i)
      [] name = "immediate"        -> immediate(i)
      [] name = "indirect"         -> indirect(i)
      [] name = "x_indirect"       -> x_indirect(i)
      [] name = "indirect_y"       -> indirect_y(i)
      [] name = "stack_indirect_y" -> stack_indirect_y(i)
      [] name = "long_indirect"    -> long_indirect(i)
      [] name = "long_indirect_y"  -> long_indirect_y(i)
      [] name = "address_pair"     -> address_pair(i)
      [] name = "address"          -> address(i)
      [] name = "opcode"           -> opcode(i)

-----------------------------------------------------------------------------
(* The calls each parser makes to other parsers, in the order it makes     *)
(* them, with the input it hands to each.                                  *)

RECURSIVE CallTree(_, _, _)

\* What the named parser returns on input i.
Returns(name, i) == CallTree(name, i, 0).returns

\* A call of a parser on an input.
Frame(name, input) == [name |-> name, input |-> input]

\* alt!: the alternatives are called in order on the same input, up to the
\* first that succeeds.
Tried(order, i) ==
    LET ks == {k \in 1..Len(order) : Returns(order[k], i).ok}
        n  == IF ks = {} THEN Len(order) ELSE CHOOSE k \in ks : \A j \in ks : k <= j
    IN  [k \in 1..n |-> Frame(order[k], i)]

\* The alternatives of top_expression.
TopOrder == <<"paren_expression", "number", "hex_number", "call", "variable">>

\* The operand parsers that begin with an opening tag and then call
\* expression, with their tag.
OpeningTag ==
    [immediate |-> "#", indirect |-> "(", x_indirect |-> "(", indirect_y |-> "(",
     stack_indirect_y |-> "(", long_indirect |-> "[", paren_expression |-> "("]

\* tag >> expression: expression is called after the tag.
tagged_callees(name, i) ==
    LET open == tag(sp(sp(i)), OpeningTag[name])
    IN  IF ~open.ok THEN <<>> ELSE <<Frame("expression", sp(open.rest))>>

\* paren_expression calling expression on its own input, the parenthesis
\* not taken.
paren_expression_callees_in_place(i) == <<Frame("expression", i)>>

paren_expression_callees(i) == tagged_callees("paren_expression", i)

address_pair_callees(i) ==
    LET first == Returns("expression", i)
        comma == tag(first.rest, ",")
    IN  <<Frame("expression", i)>>
        \o (IF first.ok /\ comma.ok THEN <<Frame("expression", comma.rest)>> ELSE <<>>)

opcode_callees(i) ==
    LET name == Returns("identifier", i)
    IN  <<Frame("identifier", i)>>
        \o (IF name.ok THEN Tried(OperandOrder, width_suffix(name.rest).rest) ELSE <<>>)

RECURSIVE expression_fold_callees(_)
\* One call of term for every operator + or - the fold reads.
expression_fold_callees(input) ==
    LET op == expression_operator(input)
    IN  IF ~op.ok THEN <<>>
        ELSE LET another == Returns("term", op.rest)
             IN  <<Frame("term", op.rest)>>
                 \o (IF another.ok THEN expression_fold_callees(another.rest) ELSE <<>>)

expression_callees(i) ==
    LET init == Returns("term", sp(sp(i)))
    IN  <<Frame("term", sp(sp(i)))>>
        \o (IF init.ok THEN expression_fold_callees(sp(init.rest)) ELSE <<>>)

RECURSIVE term_fold_callees(_)
\* One call of top_expression for every operator * or / the fold reads.
term_fold_callees(input) ==
    LET op == term_operator(input)
    IN  IF ~op.ok THEN <<>>
        ELSE LET another == Returns("top_expression", op.rest)
             IN  <<Frame("top_expression", op.rest)>>
                 \o (IF another.ok THEN term_fold_callees(another.rest) ELSE <<>>)

term_callees(i) ==
    LET init == Returns("top_expression", i)
    IN  <<Frame("top_expression", i)>>
        \o (IF init.ok THEN term_fold_callees(init.rest) ELSE <<>>)

RECURSIVE separated_list_rest_callees(_)
\* One call of expression for every separator the list reads.
separated_list_rest_callees(input) ==
    LET s == tag(sp(input), ",")
    IN  IF ~s.ok THEN <<>>
        ELSE LET e == Returns("expression", sp(s.rest))
             IN  <<Frame("expression", sp(s.rest))>>
                 \o (IF e.ok /\ Len(e.rest) # Len(s.rest)
                     THEN separated_list_rest_callees(e.rest) ELSE <<>>)

separated_list_callees(i) ==
    LET e == Returns("expression", sp(i))
    IN  <<Frame("expression", sp(i))>>
        \o (IF e.ok /\ Len(e.rest) # Len(i)
            THEN separated_list_rest_callees(e.rest) ELSE <<>>)

call_callees(i) ==
    LET n    == Returns("identifier", sp(sp(i)))
        open == tag(sp(sp(n.rest)), "(")
    IN  <<Frame("identifier", sp(sp(i)))>>
        \o (IF n.ok /\ open.ok THEN separated_list_callees(sp(open.rest)) ELSE <<>>)

\* The calls the named parser makes on input i.
callees(name, i) ==
    CASE name = "statement"        -> <<Frame("opcode", sp(sp(i)))>>
      [] name = "opcode"           -> opcode_callees(i)
      [] name = "long_indirect_y"  -> <<Frame("long_indirect", sp(sp(i)))>>
      [] name = "address_pair"     -> address_pair_callees(i)
      [] name = "address"          -> <<Frame("expression", i)>>
      [] name = "paren_expression" -> paren_expression_callees(i)
      [] name \in DOMAIN OpeningTag -> tagged_callees(name, i)
      [] name = "expression"       -> expression_callees(i)
      [] name = "term"             -> term_callees(i)
      [] name = "top_expression"   -> Tried(TopOrder, i)
      [] name = "call"             -> call_callees(i)
      [] name = "variable"         -> <<Frame("label", i)>>
      [] name = "label"            -> <<Frame("identifier", i)>>
      [] OTHER                     -> <<>>

\* The calls that follow from calling the named parser on input i, each
\* with what it returns, down to d calls deep; a call at that depth is cut,
\* its own calls left out.
CallTree(name, i, d) ==
    [name |-> name, input |-> i, cut |-> d = 0,
     returns |-> IF name = "statement" THEN statement(i) ELSE parse(name, i),
     calls |-> IF d = 0 THEN <<>>
               ELSE LET cs == callees(name, i)
                    IN  [k \in 1..Len(cs) |-> CallTree(cs[k].name, cs[k].input, d - 1)]]

-----
(* The texts the parsers are called on.  A text is kept as the sequence of  *)
(* lexemes it was written with; a whitespace lexeme may stand before,      *)
(* between and after the others.                                           *)

WS == <<" ">>

IsLexeme(t) == t # WS

\* The lexemes of a text without its whitespace.
Lexemes(ts) == SelectSeq(ts, IsLexeme)

RECURSIVE Text(_)
\* The characters of a text: what the parser is given.
Text(ts) == IF ts = <<>> THEN <<>> ELSE Head(ts) \o Text(Tail(ts))

\* The most gaps of a text that hold whitespace, unless all of them do.
MaxSpaced == 1

RECURSIVE GapSets(_, _)
\* The sets of at most m of the gaps 0..n.
GapSets(n, m) ==
    IF m = 0 THEN {{}}
    ELSE LET fewer == GapSets(n, m - 1)
         IN  fewer \cup {g \cup {k} : g \in fewer, k \in 0..n}

\* The gaps of a text of n lexemes are 0 (before the first) .. n (after the
\* last): whitespace in at most MaxSpaced of them, or in all.
SpacePatterns(n) == GapSets(n, MaxSpaced) \cup {0..n}

RECURSIVE SpacedFrom(_, _, _)
SpacedFrom(form, gaps, k) ==
    IF k > Len(form) THEN <<>>
    ELSE <<form[k]>> \o (IF k \in gaps THEN <<WS>> ELSE <<>>)
                     \o SpacedFrom(form, gaps, k + 1)

\* The form with whitespace in the given gaps.
Spaced(form, gaps) ==
    (IF 0 \in gaps THEN <<WS>> ELSE <<>>) \o SpacedFrom(form, gaps, 1)

WordChars == AsciiLetters \cup Digits \cup {"_"}

\* No two neighbouring lexemes run together into one word.
Separated(ts) ==
    \A k \in 1..(Len(ts) - 1) :
        ~(ts[k][Len(ts[k])] \in WordChars /\ ts[k + 1][1] \in WordChars)

\* Every way of writing the forms, with whitespace in some of the gaps.
Writings(forms) ==
    {ts \in UNION {{Spaced(f, g) : g \in SpacePatterns(Len(f))} : f \in forms} :
        Separated(ts)}

\* Lexemes.
LDA == <<"L", "D", "A">>

LP == <<"(">>

RP == <<")">>

LB == <<"[">>

RB == <<"]">>

COMMA == <<",">>

HASH == <<"#">>

DOT == <<".">>

COLON == <<":">>

\* An operand as it is written, with the AST it denotes.
Lit(text, value, width) == [text |-> text, ast |-> Number(U32(value), width)]

Name(text) == [text |-> text, ast |-> Variable(Named(VariableName(text)))]

N19 == Lit(<<"1", "9">>, 19, "None")

N1 == Lit(<<"1">>, 1, "None")

N2 == Lit(<<"2">>, 2, "None")

H19 == Lit(<<"$", "1", "9">>, 25, "OneByte")

\* Plain operands: a decimal literal, a hexadecimal literal, a name.
PlainOperands == {N19, H19, Name(<<"a">>)}

LiteralOperands == {N19, N2, H19}

\* The second operand of a move: a register-like name or a number.
SecondOperands == {Name(<<"x">>), Name(<<"X">>), Name(<<"y">>), Name(<<"s">>), N2}

OperatorNames == [c \in OPERATORS |->
    CASE c = "+" -> "Add" [] c = "-" -> "Sub" [] c = "*" -> "Mul" [] c = "/" -> "Div"]

\* What may follow an instruction: nothing, or a colon.
Trailers == {<<>>, <<COLON>>}

\* First operands of a move, as lexemes with the AST they denote and whether
\* the whole operand is one parenthesized expression: the plain operands,
\* operator chains over literals, a call, and parenthesized expressions.
FirstOperands ==
    {[lex |-> <<e.text>>, ast |-> e.ast, paren |-> FALSE] : e \in PlainOperands}
    \cup {[lex |-> <<N19.text, <<"+">>, N2.text>>,
           ast |-> Binary("Add", N19.ast, N2.ast), paren |-> FALSE],
          [lex |-> <<LP, N19.text, RP, <<"*">>, N2.text>>,
           ast |-> Binary("Mul", N19.ast, N2.ast), paren |-> FALSE],
          [lex |-> <<<<"f">>, LP, N2.text, RP>>,
           ast |-> Call(VariableName(<<"f">>), <<N2.ast>>), paren |-> FALSE],
          [lex |-> <<LP, N19.text, RP>>, ast |-> N19.ast, paren |-> TRUE],
          [lex |-> <<LP, H19.text, <<"-">>, N2.text, RP>>,
           ast |-> Binary("Sub", H19.ast, N2.ast), paren |-> TRUE]}

\* The operands of an instruction, one set of forms per shape.
IndirectYForms ==
    {<<LP, e.text, RP, COMMA, y>> : e \in PlainOperands, y \in {<<"y">>, <<"Y">>}}

IndirectForms == {<<LP, e.text, RP>> : e \in PlainOperands}

XIndirectForms ==
    {<<LP, e.text, COMMA, x, RP>> : e \in PlainOperands, x \in {<<"x">>, <<"X">>}}

ImmediateForms == {<<HASH, e.text>> : e \in PlainOperands}

LongIndirectYForms ==
    {<<LB, e.text, RB, COMMA, y>> : e \in PlainOperands, y \in {<<"y">>, <<"Y">>}}

LongIndirectForms == {<<LB, e.text, RB>> : e \in PlainOperands}

StackIndirectYForms ==
    {<<LP, e.text, COMMA, r, RP, COMMA, y>> :
        e \in PlainOperands, r \in {<<"s">>, <<"S">>}, y \in {<<"y">>, <<"Y">>}}

AddressForms == {<<e.text>> : e \in PlainOperands}

MoveForms ==
    {e1.lex \o <<COMMA, e2.text>> : e1 \in FirstOperands, e2 \in SecondOperands}

\* ( e ) op e2: a parenthesized expression followed by an operator.
TrickyForms ==
    {<<LP, e.text, RP, <<op>>, e2.text>> :
        e \in PlainOperands, op \in OPERATORS, e2 \in LiteralOperands}

OperandForms ==
    IndirectYForms \cup IndirectForms \cup XIndirectForms \cup ImmediateForms
    \cup LongIndirectYForms \cup LongIndirectForms \cup StackIndirectYForms
    \cup AddressForms \cup MoveForms \cup TrickyForms

\* Instructions without a width suffix.
InstructionForms == {<<LDA>> \o f \o t : f \in OperandForms, t \in Trailers}

-----------------------------------------------------------------------------
(* The state machine: a text is handed to one of the entry points, which   *)
(* returns its result.                                                     *)

NotCalled == Error(<<>>, "NotCalled")

Start(texts) ==
    /\ toks \in texts
    /\ entry = "none"
    /\ result = NotCalled
    /\ calls = {}
    /\ stack = <<>>

\* The record of a call of the entry point on the text, made with or without
\* an earlier result of this run at hand.
Logged(name, returned) ==
    [entry |-> name, input |-> Text(toks), fresh |-> result = NotCalled,
     result |-> returned]

CallIdentifier ==
    /\ entry = "none"
    /\ entry' = "identifier"
    /\ result' = identifier(Text(toks))
    /\ calls' = calls \cup {Logged("identifier", result')}
    /\ UNCHANGED <<toks, stack>>

CallExpression ==
    /\ entry = "none"
    /\ entry' = "expression"
    /\ result' = expression(Text(toks))
    /\ calls' = calls \cup {Logged("expression", result')}
    /\ UNCHANGED <<toks, stack>>

CallStatement ==
    /\ entry = "none"
    /\ entry' = "statement"
    /\ result' = statement(Text(toks))
    /\ calls' = calls \cup {Logged("statement", result')}
    /\ UNCHANGED <<toks, stack>>

CallAssignment ==
    /\ entry = "none"
    /\ entry' = "assignment"
    /\ result' = assignment(Text(toks))
    /\ calls' = calls \cup {Logged("assignment", result')}
    /\ UNCHANGED <<toks, stack>>

Next == CallIdentifier \/ CallExpression \/ CallStatement \/ CallAssignment

\* Instructions, every operand shape, no width suffix.
InitOperand == Start(Writings(InstructionForms))

SpecOperand == InitOperand /\ [][Next]_vars

-----------------------------------------------------------------------------
(* Properties of the instruction grammar.                                  *)

RECURSIVE RestFrom(_, _)
\* The characters of a text from the first occurrence of a lexeme on;
\* nothing if the lexeme does not occur.
RestFrom(ts, lexeme) ==
    IF ts = <<>> THEN <<>>
    ELSE IF Head(ts) = lexeme THEN Text(ts)
    ELSE RestFrom(Tail(ts), lexeme)

\* The text is written with whitespace somewhere.
HasSpace == \E k \in 1..Len(toks) : toks[k] = WS

\* statement returned an LDA without width, of this mode and value, and left
\* the text from the trailer on.
Returned(mode, value) ==
    result = Ok(RestFrom(toks, COLON),
                StatementOpcode(Opcode(LDA, None, mode, value)))

C3_ShapeDecidesMode ==
    \A e \in PlainOperands, t \in Trailers :
        LET Written(form) == entry = "statement" /\ Lexemes(toks) = <<LDA>> \o form \o t
            x == {<<"x">>, <<"X">>}
            y == {<<"y">>, <<"Y">>}
            r == {<<"s">>, <<"S">>}
        IN  /\ \A cy \in y : Written(<<LP, e.text, RP, COMMA, cy>>)
                               => Returned(Mode("IndirectY"), e.ast)
            /\ Written(<<LP, e.text, RP>>) => Returned(Mode("Indirect"), e.ast)
            /\ \A cx \in x : Written(<<LP, e.text, COMMA, cx, RP>>)
                               => Returned(Mode("XIndirect"), e.ast)
            /\ Written(<<HASH, e.text>>) => Returned(Mode("Immediate"), e.ast)
            /\ \A cy \in y : Written(<<LB, e.text, RB, COMMA, cy>>)
                               => Returned(Mode("LongIndirectY"), e.ast)
            /\ Written(<<LB, e.text, RB>>) => Returned(Mode("LongIndirect"), e.ast)
            /\ \A cr \in r, cy \in y :
                   Written(<<LP, e.text, COMMA, cr, RP, COMMA, cy>>)
                     => Returned(Mode("StackIndirectY"), e.ast)
            /\ Written(<<e.text>>) => Returned(Mode("Address"), e.ast)

\* C3's case: `LDA [ 19 ] , Y` written with whitespace has been parsed.
C3_Witness ==
    /\ entry = "statement"
    /\ Lexemes(toks) = <<LDA, LB, N19.text, RB, COMMA, <<"Y">>>>
    /\ HasSpace
    /\ result.ok
    /\ result.val.opcode.mode = Mode("LongIndirectY")

-----------------------------------------------------------------------------
(* Instructions with a width suffix.                                       *)

\* One operand of every shape, with the mode and value it denotes.
WidthOperands ==
    {[lex |-> <<N19.text>>, mode |-> Mode("Address"), value |-> N19.ast],
     [lex |-> <<<<"a">>>>, mode |-> Mode("Address"), value |-> Name(<<"a">>).ast],
     [lex |-> <<HASH, H19.text>>, mode |-> Mode("Immediate"), value |-> H19.ast],
     [lex |-> <<LP, N19.text, RP>>, mode |-> Mode("Indirect"), value |-> N19.ast],
     [lex |-> <<LP, N19.text, RP, COMMA, <<"y">>>>,
      mode |-> Mode("IndirectY"), value |-> N19.ast],
     [lex |-> <<LP, <<"a">>, COMMA, <<"X">>, RP>>,
      mode |-> Mode("XIndirect"), value |-> Name(<<"a">>).ast],
     [lex |-> <<LB, H19.text, RB>>, mode |-> Mode("LongIndirect"), value |-> H19.ast],
     [lex |-> <<LB, H19.text, RB, COMMA, <<"Y">>>>,
      mode |-> Mode("LongIndirectY"), value |-> H19.ast],
     [lex |-> <<LP, N19.text, COMMA, <<"s">>, RP, COMMA, <<"y">>>>,
      mode |-> Mode("StackIndirectY"), value |-> N19.ast],
     [lex |-> <<N19.text, COMMA, <<"x">>>>,
      mode |-> Move(Name(<<"x">>).ast), value |-> N19.ast],
     [lex |-> <<LP, H19.text, RP, <<"+">>, N2.text>>,
      mode |-> Mode("Address"), value |-> Binary("Add", H19.ast, N2.ast)]}

\* The width each suffix letter stands for.
WidthOfLetter ==
    [l \in {"b", "B", "w", "W", "l", "L"} |->
        CASE l \in {"b", "B"} -> 1 [] l \in {"w", "W"} -> 2 [] l \in {"l", "L"} -> 3]

\* No suffix, or a dot and a width letter.
Suffixes == {<<>>} \cup {<<DOT, <<l>>>> : l \in DOMAIN WidthOfLetter}

WidthForms ==
    {<<LDA>> \o x \o o.lex \o t : x \in Suffixes, o \in WidthOperands, t \in Trailers}

InitWidth == Start(Writings(WidthForms))

SpecWidth == InitWidth /\ [][Next]_vars

\* C4: a mnemonic followed by a dot and a width letter, whitespace allowed
\* around the dot, gives width Some(1) for b or B, Some(2) for w or W and
\* Some(3) for l or L; without a suffix the width is None; with or without
\* the suffix, the name is the mnemonic and the mode and value are those of
\* the operand.
C4_WidthSuffix ==
    \A o \in WidthOperands, t \in Trailers :
        LET Gives(width) ==
                result = Ok(RestFrom(toks, COLON),
                            StatementOpcode(Opcode(LDA, width, o.mode, o.value)))
        IN  /\ (entry = "statement" /\ Lexemes(toks) = <<LDA>> \o o.lex \o t)
                 => Gives(None)
            /\ \A l \in DOMAIN WidthOfLetter :
                 (entry = "statement"
                    /\ Lexemes(toks) = <<LDA, DOT, <<l>>>> \o o.lex \o t)
                 => Gives(Some(WidthOfLetter[l]))

\* C4's case: `LDA . W` with whitespace around the dot and an indirect operand
\* has been parsed with width 2.
C4_Witness ==
    /\ entry = "statement"
    /\ Lexemes(toks) = <<LDA, DOT, <<"W">>, LP, N19.text, RP>>
    /\ \E k \in 1..(Len(toks) - 2) : toks[k] = WS /\ toks[k + 1] = DOT /\ toks[k + 2] = WS
    /\ result.ok
    /\ result.val.opcode.width = Some(2)
    /\ result.val.opcode.mode = Mode("Indirect")
    /\ result.val.opcode.name = LDA

-----------------------------------------------------------------------------
(* Expressions over number literals: operator chains and parentheses.      *)

\* The most operators of a chain.
MaxChain == 3

N3 == Lit(<<"3">>, 3, "None")

N4 == Lit(<<"4">>, 4, "None")

\* The operands of a chain, in order.
ChainOperands ==
    <<N2, Lit(<<"3", "0">>, 30, "None"), N4, Lit(<<"5">>, 5, "None"),
      Lit(<<"6">>, 6, "None"), Lit(<<"7">>, 7, "None")>>

\* The operators of `2 + 3 * 4 - 5 / 6 + 7`.
PrecedenceChain == <<"+", "*", "-", "/", "+">>

\* Every sequence of at most MaxChain operators, and the one above.
Chains ==
    UNION {[1..n -> OPERATORS] : n \in 1..MaxChain} \cup {PrecedenceChain}

\* The chain written out: operand, operator, operand, ...
ChainLexemes(ops) ==
    [k \in 1..(2 * Len(ops) + 1) |->
        IF k % 2 = 1 THEN ChainOperands[(k + 1) \div 2].text ELSE <<ops[k \div 2]>>]

RECURSIVE Reference(_, _, _)
\* The tree standard arithmetic gives operands lo..hi of a chain: split at
\* the last + or -, or failing that at the last operator.
Reference(ops, lo, hi) ==
    IF lo = hi THEN ChainOperands[lo].ast
    ELSE LET additive == {k \in lo..(hi - 1) : ops[k] \in {"+", "-"}}
             k == IF additive # {}
                  THEN CHOOSE a \in additive : \A b \in additive : b <= a
                  ELSE hi - 1
         IN  Binary(OperatorNames[ops[k]], Reference(ops, lo, k), Reference(ops, k + 1, hi))

\* ( a op1 b ) op2 c, a op2 ( b op1 c ), ( a ) and ( ( a + b ) ).
ParenForms ==
    {<<LP, N2.text, <<op1>>, N3.text, RP, <<op2>>, N4.text>> :
        op1 \in OPERATORS, op2 \in OPERATORS}
    \cup {<<N2.text, <<op2>>, LP, N3.text, <<op1>>, N4.text, RP>> :
        op1 \in OPERATORS, op2 \in OPERATORS}
    \cup {<<LP, N2.text, RP>>, <<LP, LP, N2.text, <<"+">>, N3.text, RP, RP>>}

ChainForms == {ChainLexemes(ops) : ops \in Chains} \cup ParenForms

InitChain == Start(Writings(ChainForms))

SpecChain == InitChain /\ [][Next]_vars

\* expression was called on a text of these lexemes, however spaced.
Expressed(lexemes) == entry = "expression" /\ Lexemes(toks) = lexemes

\* C5: for every flat chain of number literals and operators + - * /,
\* however spaced, expression returns the tree of standard arithmetic, in
\* which * and / bind tighter than + and - and operators of one tier fold
\* from left to right, with nothing remaining.
C5_ChainIsReferenceTree ==
    \A ops \in Chains :
        Expressed(ChainLexemes(ops))
        => result = Ok(<<>>, Reference(ops, 1, Len(ops) + 1))

\* C5's case: ` 2 + 30 * 4 - 5 / 6 + 7 ` has been parsed to
\* ((2 + (30 * 4)) - (5 / 6)) + 7.
C5_Witness ==
    /\ Expressed(ChainLexemes(PrecedenceChain))
    /\ HasSpace
    /\ result.ok
    /\ result.val.op = "Add"
    /\ result.val.right = ChainOperands[6].ast
    /\ result.val.left.op = "Sub"
    /\ result.val.left.right = Binary("Div", ChainOperands[4].ast, ChainOperands[5].ast)
    /\ result.val.left.left.right = Binary("Mul", ChainOperands[2].ast, ChainOperands[3].ast)

\* C6: a parenthesized sub-expression is one operand of the operator around
\* it: `( a op1 b ) op2 c` gives the tree with root op2 whose left child is
\* the tree of a op1 b, and `a op2 ( b op1 c )` the tree with root op2 whose
\* right child is the tree of b op1 c, for all op1, op2 of + - * /, with
\* nothing remaining; the parentheses leave no node of their own.
C6_ParenthesesOverridePrecedence ==
    /\ \A op1 \in OPERATORS, op2 \in OPERATORS :
        /\ Expressed(<<LP, N2.text, <<op1>>, N3.text, RP, <<op2>>, N4.text>>)
           => result = Ok(<<>>, Binary(OperatorNames[op2],
                                       Binary(OperatorNames[op1], N2.ast, N3.ast),
                                       N4.ast))
        /\ Expressed(<<N2.text, <<op2>>, LP, N3.text, <<op1>>, N4.text, RP>>)
           => result = Ok(<<>>, Binary(OperatorNames[op2],
                                       N2.ast,
                                       Binary(OperatorNames[op1], N3.ast, N4.ast)))
    /\ Expressed(<<LP, N2.text, RP>>) => result = Ok(<<>>, N2.ast)
    /\ Expressed(<<LP, LP, N2.text, <<"+">>, N3.text, RP, RP>>)
       => result = Ok(<<>>, Binary("Add", N2.ast, N3.ast))

\* C6's case: ` ( 2 + 3 ) * 4 ` has been parsed to (2 + 3) * 4.
C6_Witness ==
    /\ Expressed(<<LP, N2.text, <<"+">>, N3.text, RP, <<"*">>, N4.text>>)
    /\ Head(toks) = WS
    /\ result = Ok(<<>>, Binary("Mul", Binary("Add", N2.ast, N3.ast), N4.ast))

-----------------------------------------------------------------------------
(* Calls.                                                                  *)

\* The most arguments of a call.
MaxArgs == 2

F == <<"f">>

G == <<"g">>

\* g(2, 3)
InnerCall ==
    [lex |-> <<G, LP, N2.text, COMMA, N3.text, RP>>,
     ast |-> Call(VariableName(G), <<N2.ast, N3.ast>>)]

\* g()
EmptyCall == [lex |-> <<G, LP, RP>>, ast |-> Call(VariableName(G), <<>>)]

\* The arguments: a literal, a binary expression, a call.
Arguments ==
    {[lex |-> <<N2.text>>, ast |-> N2.ast],
     [lex |-> <<N3.text, <<"+">>, N4.text>>, ast |-> Binary("Add", N3.ast, N4.ast)],
     InnerCall}

\* Every list of at most MaxArgs arguments, and the list of g() alone.
ArgumentLists == UNION {[1..n -> Arguments] : n \in 0..MaxArgs} \cup {<<EmptyCall>>}

RECURSIVE Listed(_, _)
\* The arguments from the k-th on, written with commas between them.
Listed(args, k) ==
    IF k > Len(args) THEN <<>>
    ELSE args[k].lex \o (IF k < Len(args) THEN <<COMMA>> ELSE <<>>) \o Listed(args, k + 1)

\* f ( a1 , ... , an )
CallLexemes(args) == <<F, LP>> \o Listed(args, 1) \o <<RP>>

\* f ( a1 , ... , an , )
TrailingCommaLexemes(args) == <<F, LP>> \o Listed(args, 1) \o <<COMMA, RP>>

\* f ( 2 , 3 + g ( 2 , 3 ) + 4 , 4 ) * 2
ComplexCall ==
    [lex |-> <<F, LP, N2.text, COMMA, N3.text, <<"+">>>> \o InnerCall.lex
             \o <<<<"+">>, N4.text, COMMA, N4.text, RP, <<"*">>, N2.text>>,
     ast |-> Binary("Mul",
                    Call(VariableName(F),
                         <<N2.ast,
                           Binary("Add", Binary("Add", N3.ast, InnerCall.ast), N4.ast),
                           N4.ast>>),
                    N2.ast)]

\* f ( ( 1 , 2 ) ), and other parenthesized texts after f that are no
\* argument list: f ( , ), f ( 2 3 ), f ( 2 and f ( ( 2 ) , ).
MalformedCalls ==
    {<<F, LP, LP, N1.text, COMMA, N2.text, RP, RP>>,
     <<F, LP, COMMA, RP>>,
     <<F, LP, N2.text, N3.text, RP>>,
     <<F, LP, N2.text>>,
     <<F, LP, LP, N2.text, RP, COMMA, RP>>}

CallForms ==
    {CallLexemes(args) : args \in ArgumentLists}
    \cup {TrailingCommaLexemes(args) : args \in ArgumentLists \ {<<>>}}
    \cup {ComplexCall.lex}
    \cup MalformedCalls

InitCall == Start(Writings(CallForms))

SpecCall == InitCall /\ [][Next]_vars

-----------------------------------------------------------------------------
(* Hexadecimal literals.                                                   *)

\* The most digits of a hexadecimal literal.
MaxHexDigits == 5

DOLLAR == <<"$">>

\* Every run of at most MaxHexDigits of the digits 0, a and F, and the runs
\* FE, FED and 000019.
HexRuns ==
    UNION {[1..n -> {"0", "a", "F"}] : n \in 1..MaxHexDigits}
    \cup {<<"F", "E">>, <<"F", "E", "D">>, <<"0", "0", "0", "0", "1", "9">>}

\* A second run, after whitespace.
DC == <<"D", "C">>

HexForms ==
    {<<DOLLAR, r>> : r \in HexRuns} \cup {<<DOLLAR, r, DC>> : r \in HexRuns}

InitHex == Start(Writings(HexForms))

SpecHex == InitHex /\ [][Next]_vars

\* The value of a hexadecimal digit.
HexDigitValue ==
    [c \in Digits \cup HexLetters |->
        CASE c = "0" -> 0 [] c = "1" -> 1 [] c = "2" -> 2 [] c = "3" -> 3
          [] c = "4" -> 4 [] c = "5" -> 5 [] c = "6" -> 6 [] c = "7" -> 7
          [] c = "8" -> 8 [] c = "9" -> 9
          [] c \in {"a", "A"} -> 10 [] c \in {"b", "B"} -> 11
          [] c \in {"c", "C"} -> 12 [] c \in {"d", "D"} -> 13
          [] c \in {"e", "E"} -> 14 [] c \in {"f", "F"} -> 15]

RECURSIVE HexValue(_)
\* The number a run of hexadecimal digits denotes.
HexValue(run) ==
    IF run = <<>> THEN 0
    ELSE 16 * HexValue(SubSeq(run, 1, Len(run) - 1)) + HexDigitValue[run[Len(run)]]

\* The literal a run denotes: its value, and the width its length decides.
HexLiteral(run) ==
    Number(U32(HexValue(run)),
           IF Len(run) = 2 THEN "OneByte"
           ELSE IF Len(run) = 4 THEN "TwoBytes"
           ELSE "None")

\* C10: on `$` and a run of hexadecimal digits, whitespace allowed between
\* them, expression returns the number the run denotes with width OneByte
\* for exactly 2 digits, TwoBytes for exactly 4 and None for any other
\* count, whatever the value; whitespace ends the run, so that a second run
\* after whitespace is left as the remainder.
C10_HexWidthByLength ==
    \A r \in HexRuns :
        /\ Expressed(<<DOLLAR, r>>) => result = Ok(<<>>, HexLiteral(r))
        /\ Expressed(<<DOLLAR, r, DC>>) => result = Ok(RestFrom(toks, DC), HexLiteral(r))

\* C10's case: ` $ FE DC ` has been parsed to 0xFE of one byte, `DC ` left.
C10_Witness ==
    /\ Expressed(<<DOLLAR, <<"F", "E">>, DC>>)
    /\ toks = <<WS, DOLLAR, WS, <<"F", "E">>, WS, DC, WS>>
    /\ result = Ok(<<"D", "C", " ">>, Number(U32(254), "OneByte"))

-----------------------------------------------------------------------------
(* Labels and variable names as operands.                                  *)

\* The longest run of + or - written as a label.
MaxRun == 2

\* n times the character c.
Run(c, n) == [k \in 1..n |-> c]

\* A run of + or of - alone.
RunForms == {<<Run(c, n)>> : c \in {"+", "-"}, n \in 1..MaxRun}

\* The text `+ + ++`.
RelativeSum == <<Run("+", 1), WS, Run("+", 1), WS, Run("+", 2)>>

\* Names and a number as the operands of one operator.
NamedOperands == {Name(<<"a">>), Name(<<"b">>), Name(<<"x">>), N2}

BinaryForms ==
    {<<l.text, <<op>>, r.text>> : l \in NamedOperands, op \in OPERATORS, r \in NamedOperands}

LabelForms == RunForms \cup BinaryForms \cup {<<LDA>> \o f : f \in BinaryForms}

\* The text `a + b`.
SpacedSum == <<<<"a">>, WS, <<"+">>, WS, <<"b">>>>

InitLabel == Start(Writings(LabelForms) \cup {RelativeSum, SpacedSum})

SpecLabel == InitLabel /\ [][Next]_vars

\* C8: a run of n characters + alone is the variable of the relative label n
\* and a run of n characters - that of the relative label -n, and
\* expression on `+ + ++` returns Binary(Add, Variable(Relative(1)),
\* Variable(Relative(2))) with nothing remaining.
C8_RelativeLabels ==
    /\ \A n \in 1..MaxRun :
         /\ Expressed(<<Run("+", n)>>) => result = Ok(<<>>, Variable(Relative(n)))
         /\ Expressed(<<Run("-", n)>>) => result = Ok(<<>>, Variable(Relative(-n)))
    /\ (entry = "expression" /\ toks = RelativeSum)
       => result = Ok(<<>>, Binary("Add", Variable(Relative(1)), Variable(Relative(2))))

\* What the code does on `+ + ++`: no alternative of top_expression accepts
\* a +, and expression fails.
C8_Witness ==
    /\ entry = "expression"
    /\ toks = RelativeSum
    /\ result = Error(Text(RelativeSum), "Alt")

\* The lexemes with whitespace only where two words would run together.
Tight(lexemes) ==
    Spaced(lexemes,
           {k \in 1..(Len(lexemes) - 1) :
               /\ lexemes[k][Len(lexemes[k])] \in WordChars
               /\ lexemes[k + 1][1] \in WordChars})

IsInk(c) == c \notin Separators

\* The characters of a text that are not whitespace.
Ink(text) == SelectSeq(text, IsInk)

\* Two results with the same AST that consumed the same of the input.
SameParse(r1, r2) ==
    /\ r1.ok = r2.ok
    /\ r1.ok => (r1.val = r2.val /\ Ink(r1.rest) = Ink(r2.rest))

\* C9: whitespace between the lexemes of an expression or an instruction
\* changes neither the AST nor how much of the rest is consumed: the result
\* is that of the same lexemes written tight; in particular `a + b`, however
\* spaced, is the sum of a and b, and `x * 2` and `2 * x` are products, with
\* nothing remaining.
C9_WhitespaceIsInsignificant ==
    /\ entry = "expression"
       => SameParse(result, expression(Text(Tight(Lexemes(toks)))))
    /\ entry = "statement"
       => SameParse(result, statement(Text(Tight(Lexemes(toks)))))
    /\ \A l \in NamedOperands, op \in OPERATORS, r \in NamedOperands :
         Expressed(<<l.text, <<op>>, r.text>>)
         => result = Ok(<<>>, Binary(OperatorNames[op], l.ast, r.ast))

\* What the code does on `a + b`: it returns the variable a and leaves `+ b`.
C9_Witness ==
    /\ entry = "expression"
    /\ toks = SpacedSum
    /\ result = Ok(<<"+", " ", "b">>, Name(<<"a">>).ast)

-----------------------------------------------------------------------------
(* The range of number literals.                                           *)

\* The most digits of a decimal literal drawn from 0, 1 and 9.
MaxDigits == 3

\* u32::MAX, written out.
MaxDecimal == <<"4", "2", "9", "4", "9", "6", "7", "2", "9", "5">>

\* Decimal digit strings denoting at most u32::MAX: every string of at most
\* MaxDigits of the digits 0, 1, 9, and strings at and near the limits.
DecimalRuns ==
    UNION {[1..n -> {"0", "1", "9"}] : n \in 1..MaxDigits}
    \cup {MaxDecimal, <<"0", "0", "0">> \o MaxDecimal,
          <<"4", "2", "9", "4", "9", "6", "7", "2", "9", "4">>,
          <<"2", "1", "4", "7", "4", "8", "3", "6", "4", "8">>,
          <<"6", "5", "5", "3", "6">>, <<"6", "5", "5", "3", "5">>,
          [k \in 1..13 |-> "0"]}

\* Decimal digit strings denoting more than u32::MAX.
HugeDecimals ==
    {<<"4", "2", "9", "4", "9", "6", "7", "2", "9", "6">>,
     <<"0", "4", "2", "9", "4", "9", "6", "7", "2", "9", "6">>,
     <<"4", "2", "9", "4", "9", "6", "7", "3", "0", "0">>,
     [k \in 1..11 |-> "9"],
     <<"2", "8", "5", "9", "4", "2", "1", "8", "7", "5", "3", "9", "2", "6", "8",
       "3", "9", "2", "8", "7", "3", "2", "5", "6", "8">>}

\* Hexadecimal digit strings denoting more than u32::MAX.
HugeHexRuns ==
    {<<"1", "0", "0", "0", "0", "0", "0", "0", "0">>,
     [k \in 1..9 |-> "F"],
     <<"0", "1", "0", "0", "0", "0", "0", "0", "0", "0">>}

\* $FFFFFFFF
MaxHexRun == [k \in 1..8 |-> "F"]

\* Literals denoting more than u32::MAX, as lexemes.
HugeLiterals == {<<d>> : d \in HugeDecimals} \cup {<<DOLLAR, h>> : h \in HugeHexRuns}

\* A huge literal where an operand is required: to the right of an operator,
\* as the argument of a call, as the operand of an instruction.
HugeOperandForms ==
    UNION {{<<N1.text, <<"+">>>> \o o, <<N1.text, <<"*">>>> \o o,
            <<F, LP>> \o o \o <<RP>>, <<LDA>> \o o, <<LDA, N1.text, <<"+">>>> \o o,
            <<LDA, HASH>> \o o} : o \in HugeLiterals}

\* The text `1 + 99999999999`.
HugeSum == <<N1.text, WS, <<"+">>, WS, [k \in 1..11 |-> "9"]>>

\* Texts that start with no token of an expression.
TokenlessForms == {<<>>, <<<<"?">>>>, <<RP>>, <<COMMA>>}

NumberForms ==
    {<<d>> : d \in DecimalRuns} \cup {<<DOLLAR, MaxHexRun>>} \cup HugeLiterals
    \cup HugeOperandForms \cup TokenlessForms

InitNumber == Start(Writings(NumberForms) \cup {HugeSum})

SpecNumber == InitNumber /\ [][Next]_vars

DecimalDigits == <<"0", "1", "2", "3", "4", "5", "6", "7", "8", "9">>

RECURSIVE Decimal(_)
\* The decimal digits of a u32, most significant first; none for 0.
Decimal(v) ==
    IF v = <<0, 0>> THEN <<>>
    ELSE LET t == (v[1] % 10) * Limb + v[2]
         IN  Decimal(<<v[1] \div 10, t \div 10>>) \o <<DecimalDigits[(t % 10) + 1]>>

RECURSIVE Canonical(_)
\* A digit string without its leading zeros.
Canonical(d) == IF d # <<>> /\ Head(d) = "0" THEN Canonical(Tail(d)) ELSE d

\* C11: on a string of decimal digits that denotes at most u32::MAX, leading
\* zeros or not, expression returns the number of that value with width None
\* and nothing remaining.
C11_DecimalLiteral ==
    \A d \in DecimalRuns :
        Expressed(<<d>>)
        => /\ result.ok
           /\ result.rest = <<>>
           /\ result.val.tag = "Number"
           /\ result.val.width = "None"
           /\ Decimal(result.val.value) = Canonical(d)

\* C11's case: 0004294967295 has been parsed to u32::MAX.
C11_Witness ==
    /\ Expressed(<<<<"0", "0", "0">> \o MaxDecimal>>)
    /\ result = Ok(<<>>, Number(<<65535, 65535>>, "None"))

\* C12: on a decimal or hexadecimal literal that denotes more than u32::MAX
\* expression fails; $FFFFFFFF is still the number u32::MAX.
C12_HugeLiteralFails ==
    /\ \A o \in HugeLiterals : Expressed(o) => ~result.ok
    /\ Expressed(<<DOLLAR, MaxHexRun>>)
       => result = Ok(<<>>, Number(<<65535, 65535>>, "None"))

\* C12's case: expression has failed on 2859421875392683928732568.
C12_Witness ==
    /\ entry = "expression"
    /\ Len(Text(toks)) = 25
    /\ Lexemes(toks) \in HugeLiterals
    /\ ~result.ok

\* C13: where an operand is required, a literal that denotes more than
\* u32::MAX makes expression and statement fail; they do not succeed with a
\* parse that stops before the literal.
C13_HugeOperandFails ==
    \A f \in HugeOperandForms :
        /\ (Expressed(f) /\ Head(f) # LDA) => ~result.ok
        /\ (entry = "statement" /\ Lexemes(toks) = f /\ Head(f) = LDA) => ~result.ok

\* What the code does on `1 + 99999999999`: it returns the number 1 and
\* leaves the operator and the literal.
C13_Witness ==
    /\ entry = "expression"
    /\ toks = HugeSum
    /\ result = Ok(Text(SubSeq(HugeSum, 3, 5)), N1.ast)

\* C14: the error expression returns for a literal that denotes more than
\* u32::MAX differs in kind from the error it returns for a text that starts
\* with no token.
C14_OverflowIsDistinct ==
    \A o \in HugeLiterals, t \in TokenlessForms :
        Expressed(o) => result.kind # expression(Text(t)).kind

\* What the code does on 99999999999: the error of the exhausted alternatives.
C14_Witness ==
    /\ entry = "expression"
    /\ toks = <<[k \in 1..11 |-> "9"]>>
    /\ result = Error(Text(toks), "Alt")

-----------------------------------------------------------------------------
(* Identifiers.                                                            *)

\* The most characters of a text handed to identifier.
MaxIdLen == 3

\* The characters those texts are drawn from.
IdChars == {"a", "4", "_", "!", "+", " ", "U+4E16", "U+FE4F"}

\* Every text of at most MaxIdLen of those characters, and the texts hello,
\* abc123, he+, !variable, a___b and _private.
IdTexts ==
    UNION {[1..n -> IdChars] : n \in 0..MaxIdLen}
    \cup {<<"h", "e", "l", "l", "o">>, <<"a", "b", "c", "1", "2", "3">>,
          <<"h", "e", "+">>, <<"!", "v", "a", "r", "i", "a", "b", "l", "e">>,
          <<"a", "_", "_", "_", "b">>, <<"_", "p", "r", "i", "v", "a", "t", "e">>}

\* A text as one lexeme; the empty text has none.
Whole(text) == IF text = <<>> THEN <<>> ELSE <<text>>

InitIdentifier == Start({Whole(t) : t \in IdTexts})

SpecIdentifier == InitIdentifier /\ [][Next]_vars

\* The length of the longest prefix of a non-empty text whose characters
\* after the first are all XID_Continue or the low line.
IdentifierLength(text) ==
    CHOOSE n \in 1..Len(text) :
        /\ \A j \in 2..n : text[j] \in XidContinueChars \cup {"_"}
        /\ n < Len(text) => text[n + 1] \notin XidContinueChars \cup {"_"}

\* C15: identifier succeeds exactly on a text that is not empty and starts
\* with !, the low line or an XID_Start character; it returns as consumed the
\* first character and the longest run of XID_Continue characters and low
\* lines after it, and as remainder the rest, so that consumed and remainder
\* together are the text; on every other text it fails.
C15_IdentifierIsMaximalPrefix ==
    entry = "identifier"
    => LET text == Text(toks)
       IN  IF text # <<>> /\ text[1] \in XidStartChars \cup {"!", "_"}
           THEN /\ result = Ok(SubSeq(text, IdentifierLength(text) + 1, Len(text)),
                               SubSeq(text, 1, IdentifierLength(text)))
                /\ result.val \o result.rest = text
           ELSE ~result.ok

\* C15's case: identifier on !! has returned ! and left !.
C15_Witness ==
    /\ entry = "identifier"
    /\ Text(toks) = <<"!", "!">>
    /\ result = Ok(<<"!">>, <<"!">>)

-----------------------------------------------------------------------------
(* Instructions whose operand no addressing mode accepts.                  *)

\* No operand, a parenthesis or bracket that is not closed, a lone # or
\* comma, a register where none belongs, a dot with no width letter.
UnmatchedOperands ==
    {<<>>, <<LP, N19.text>>, <<LB, N19.text>>, <<HASH>>, <<COMMA>>, <<RP>>,
     <<LP, RP>>, <<COMMA, <<"x">>>>, <<HASH, LP, N19.text>>,
     <<LP, N19.text, COMMA, <<"y">>, RP>>, <<LP, N19.text, COMMA, <<"s">>, RP>>,
     <<LB, N19.text, COMMA, <<"y">>, RB>>, <<DOT, <<"x">>, N19.text>>}

UnmatchedForms ==
    {<<LDA>> \o x \o o : x \in {<<>>, <<DOT, <<"w">>>>}, o \in UnmatchedOperands}

InitUnmatched == Start(Writings(UnmatchedForms))

SpecUnmatched == InitUnmatched /\ [][Next]_vars

\* C17: when no addressing mode accepts what follows the mnemonic and its
\* width suffix, statement returns a failure, which is one error value and
\* carries no statement.
C17_UnmatchedOperandFails ==
    \A f \in UnmatchedForms :
        (entry = "statement" /\ Lexemes(toks) = f)
        => /\ ~result.ok
           /\ DOMAIN result = {"ok", "at", "kind"}
           /\ result.kind = "Alt"

\* C17's case: statement has failed on `LDA (19`.
C17_Witness ==
    /\ entry = "statement"
    /\ Text(toks) = <<"L", "D", "A", " ", "(", "1", "9">>
    /\ result = Error(Text(toks), "Alt")

-----------------------------------------------------------------------------
(* Assignments.                                                            *)

EQ == <<"=">>

HELLO == <<"h", "e", "l", "l", "o">>

N44 == Lit(<<"4", "4">>, 44, "None")

AssignedNames == {HELLO, <<"x">>, <<"_", "a">>}

\* Right-hand sides: 44, $19, a+b, 44 :, f(1), (1+2)*3.
AssignedValues ==
    {<<N44.text>>, <<H19.text>>, <<<<"a">>, <<"+">>, <<"b">>>>, <<N44.text, COLON>>,
     <<F, LP, N1.text, RP>>,
     <<LP, N1.text, <<"+">>, N2.text, RP, <<"*">>, N3.text>>}

AssignmentForms == {<<n, EQ>> \o v : n \in AssignedNames, v \in AssignedValues}

\* Texts with the name, the `=` or the expression missing.
IncompleteAssignments ==
    {<<>>, <<HELLO>>, <<EQ, N44.text>>, <<HELLO, N44.text>>, <<HELLO, EQ>>,
     <<HELLO, EQ, <<"?">>>>, <<HELLO, EQ, EQ, N44.text>>, <<HELLO, COLON, EQ, N44.text>>,
     <<N1.text, EQ, N44.text>>}

\* The texts `hello = 44` and `x = a + b`.
HelloText == <<HELLO, WS, EQ, WS, N44.text>>

SpacedAssignment == <<<<"x">>, WS, EQ, WS, <<"a">>, WS, <<"+">>, WS, <<"b">>>>

InitAssignment ==
    Start(Writings(AssignmentForms \cup IncompleteAssignments)
          \cup {HelloText, SpacedAssignment})

SpecAssignment == InitAssignment /\ [][Next]_vars

RECURSIVE AfterLexeme(_, _)
\* The text that follows the first occurrence of the lexeme.
AfterLexeme(ts, lexeme) ==
    IF ts = <<>> THEN <<>>
    ELSE IF Head(ts) = lexeme THEN Text(Tail(ts))
    ELSE AfterLexeme(Tail(ts), lexeme)

\* C18: assignment on `name = expr`, with or without whitespace around the
\* name, the `=` and the expression, returns the assignment of what
\* expression returns for the text after `=` to the name, with the remainder
\* expression leaves, and fails when expression fails there; it fails when the
\* name, the `=` or the expression is missing; on `hello = 44` it returns the
\* assignment of the number 44 without width to hello and leaves nothing.
C18_AssignmentOfExpression ==
    entry = "assignment" =>
        /\ \A f \in AssignmentForms :
               Lexemes(toks) = f =>
                   LET e == expression(AfterLexeme(toks, EQ))
                   IN  /\ e.ok
                       /\ result = Ok(e.rest,
                                      StatementAssignment(VariableName(f[1]), e.val))
        /\ Lexemes(toks) \in IncompleteAssignments => ~result.ok
        /\ toks = HelloText =>
               result = Ok(<<>>, StatementAssignment(VariableName(HELLO),
                                                     Number(U32(44), "None")))

\* C18's case: assignment has returned the assignment to x of the variable a
\* on `x = a + b`, leaving `+ b`, as expression does on ` a + b`.
C18_Witness ==
    /\ entry = "assignment"
    /\ toks = SpacedAssignment
    /\ result = Ok(<<"+", " ", "b">>,
                   StatementAssignment(VariableName(<<"x">>),
                                       Variable(Named(VariableName(<<"a">>)))))

-----------------------------------------------------------------------------
(* Several calls, in one run and in fresh runs.                            *)

MaxCalls == 3

\* The text `LDA (19),x`.
IndexedText == <<LDA, WS, LP, N19.text, RP, COMMA, <<"x">>>>

PureTexts ==
    {SpacedSum, SpacedAssignment, HelloText, IndexedText, RelativeSum, HugeSum,
     <<<<"!">>, <<"!">>>>, <<N44.text, WS, COLON>>, <<F, LP, N1.text, RP>>}

\* A text to parse next: the same text, or the remainder of the last
\* successful parse.
NextTexts == {toks} \cup (IF result.ok THEN {Whole(result.rest)} ELSE {})

\* Another call in the same run: the last result is still at hand.
Again ==
    /\ entry # "none"
    /\ Cardinality(calls) < MaxCalls
    /\ entry' = "none"
    /\ toks' \in NextTexts
    /\ UNCHANGED <<result, calls, stack>>

\* A fresh run: nothing of the earlier calls is at hand.
Fresh ==
    /\ entry # "none"
    /\ Cardinality(calls) < MaxCalls
    /\ entry' = "none"
    /\ toks' \in NextTexts
    /\ result' = NotCalled
    /\ UNCHANGED <<calls, stack>>

NextPure == Next \/ Again \/ Fresh

InitPure == Start(PureTexts)

SpecPure == InitPure /\ [][NextPure]_vars

-----------------------------------------------------------------------------
(* The nine addressing modes, each tried on its own on one operand.        *)

Patterns == {OperandOrder[k] : k \in 1..Len(OperandOrder)}

\* Every addressing-mode parser is called on the text.
CallOperands ==
    /\ entry = "none"
    /\ entry' = "operands"
    /\ result' = [name \in Patterns |-> parse(name, Text(toks))]
    /\ calls' = calls \cup {Logged(name, result'[name]) : name \in Patterns}
    /\ UNCHANGED <<toks, stack>>

NextOperands == CallOperands

InitOperands == Start(Writings(OperandForms \cup UnmatchedOperands))

SpecOperands == InitOperands /\ [][NextOperands]_vars

\* The addressing modes that succeeded.
Succeeded == {name \in Patterns : result[name].ok}

\* C20 as the specification states it: at most one addressing mode succeeds
\* on an operand, except on operands where both address_pair and address
\* succeed.
C20_PatternsAreExclusive ==
    entry = "operands" =>
        \/ Cardinality(Succeeded) <= 1
        \/ {"address_pair", "address"} \subseteq Succeeded

\* The sets of addressing modes that succeed together.
OverlapSets ==
    {{}, {"immediate"}, {"x_indirect"}, {"stack_indirect_y"}, {"long_indirect"},
     {"long_indirect_y", "long_indirect"},
     {"address"}, {"address_pair", "address"}, {"indirect", "address"},
     {"indirect", "address_pair", "address"},
     {"indirect_y", "indirect", "address_pair", "address"}}

\* C20: immediate, x_indirect and stack_indirect_y succeed alone; wherever
\* long_indirect_y succeeds so does long_indirect and nothing else; wherever
\* indirect succeeds so does address, wherever indirect_y succeeds so do
\* indirect, address_pair and address, wherever address_pair succeeds so does
\* address; no other two addressing modes succeed on one operand.  `( e )`
\* is accepted by indirect and address, `[ e ],y` by long_indirect_y and
\* long_indirect.
C20_PatternsOverlapInGroups ==
    entry = "operands" =>
        /\ Succeeded \in OverlapSets
        /\ Lexemes(toks) \in IndirectForms => Succeeded = {"indirect", "address"}
        /\ Lexemes(toks) \in LongIndirectYForms
               => Succeeded = {"long_indirect_y", "long_indirect"}
        /\ Lexemes(toks) \in XIndirectForms => Succeeded = {"x_indirect"}

\* C20's case: on `(19)` indirect and address have both succeeded, and
\* address_pair has failed.
C20_Witness ==
    /\ entry = "operands"
    /\ toks = <<LP, N19.text, RP>>
    /\ result["indirect"] = Ok(<<>>, <<N19.ast, Mode("Indirect")>>)
    /\ result["address"] = Ok(<<>>, <<N19.ast, Mode("Address")>>)
    /\ ~result["address_pair"].ok

-----------------------------------------------------------------------------
(* Ordered choice: the operand of an instruction and a top-level           *)
(* expression.                                                             *)

\* One top-level expression, alone or before a colon: a parenthesized
\* expression, a number, a hexadecimal number, a call, a name, a relative
\* label, a malformed call, and texts that are no expression.
TopForms ==
    {f \o t : f \in {<<LP, N19.text, RP>>, <<N19.text>>, <<H19.text>>,
                     <<F, LP, N2.text, RP>>, <<<<"a">>>>, <<<<"+">>>>,
                     <<F, LP, COMMA, RP>>, <<F, LP, N2.text>>,
                     <<LP, N19.text>>, <<DOLLAR>>, <<<<"?">>>>, <<RP>>},
              t \in Trailers}

ChoiceForms ==
    InstructionForms \cup {<<LDA>> \o o : o \in UnmatchedOperands} \cup TopForms

InitChoice == Start(Writings(ChoiceForms))

SpecChoice == InitChoice /\ [][Next]_vars

\* The alternatives as they are written in opcode and in top_expression.
WrittenOperandOrder ==
    <<"indirect_y", "indirect", "x_indirect", "address_pair", "address",
      "immediate", "long_indirect_y", "long_indirect", "stack_indirect_y">>

WrittenTopOrder == <<"paren_expression", "number", "hex_number", "call", "variable">>

\* The alternatives of the order that succeed on the input when called on
\* it on their own.
Succeeding(order, input) == {k \in 1..Len(order) : parse(order[k], input).ok}

\* The result of the first of them.
FirstSuccess(order, input) ==
    LET ks == Succeeding(order, input)
    IN  parse(order[CHOOSE k \in ks : \A j \in ks : k <= j], input)

\* C21: the operand of an instruction is what the first addressing mode, in
\* the written order, that succeeds on the text after the mnemonic returns
\* when called on its own there, value and remainder, and the instruction
\* fails when none succeeds; a top-level expression is likewise what the
\* first of paren_expression, number, hex_number, call, variable that
\* succeeds on the text returns, up to the whitespace expression skips
\* after it; an alternative that failed after reading
\* part of the text takes nothing away from the later ones.
C21_FirstSuccessIsReturned ==
    /\ (entry = "statement" /\ Len(Lexemes(toks)) > 0 /\ Lexemes(toks)[1] = LDA) =>
           LET operand == AfterLexeme(toks, LDA)
           IN  IF Succeeding(WrittenOperandOrder, operand) = {} THEN ~result.ok
               ELSE LET first == FirstSuccess(WrittenOperandOrder, operand)
                    IN  result = Ok(first.rest,
                                    StatementOpcode(Opcode(LDA, None, first.val[2],
                                                           first.val[1])))
    /\ (entry = "expression" /\ Lexemes(toks) \in TopForms) =>
           LET input == sp(Text(toks))
           IN  IF Succeeding(WrittenTopOrder, input) = {} THEN ~result.ok
               ELSE LET first == FirstSuccess(WrittenTopOrder, input)
                    IN  result = Ok(sp(first.rest), first.val)

\* C21's case: on `LDA (19,x)` indirect_y and indirect have read `(19` and
\* failed at the comma, and statement has returned what x_indirect returns
\* on the whole operand.
C21_Witness ==
    /\ entry = "statement"
    /\ toks = <<LDA, WS, LP, N19.text, COMMA, <<"x">>, RP>>
    /\ parse("indirect", AfterLexeme(toks, LDA)).at = <<",", "x", ")">>
    /\ result = Ok(<<>>, StatementOpcode(Opcode(LDA, None, Mode("XIndirect"), N19.ast)))

-----------------------------------------------------------------------------
(* Every call returns.                                                     *)

\* Characters written after the dot of a width suffix.
DotChars == {"b", "W", "l", "x", "A", "4", ".", "_", "U+4E16", "U+FE4F"}

\* `LDA .c` and `LDA .c 19` for each of them, and `LDA .` alone.
DotForms ==
    {<<LDA, DOT>>, <<LDA, DOT, N19.text>>}
    \cup {<<LDA, DOT, <<c>>>> \o o : c \in DotChars, o \in {<<>>, <<N19.text>>}}

InitReturn == Start(Writings(DotForms) \cup {Whole(t) : t \in IdTexts})

SpecReturn == InitReturn /\ [][Next]_vars

-----------------------------------------------------------------------------
(* The modes of the instructions statement returns.                        *)

NOP == <<"N", "O", "P">>

ASL == <<"A", "S", "L">>

\* A mnemonic alone, with or without a width suffix.
BareForms == {<<n>> \o x : n \in {NOP, ASL, LDA}, x \in {<<>>, <<DOT, <<"b">>>>}}

\* ASL A and ASL a.
AccumulatorForms == {<<ASL, <<r>>>> \o t : r \in {"A", "a"}, t \in Trailers}

ModeForms ==
    InstructionForms \cup WidthForms \cup UnmatchedForms \cup BareForms
    \cup AccumulatorForms

InitMode == Start(Writings(ModeForms))

SpecMode == InitMode /\ [][Next]_vars

\* The modes the nine operand parsers give.
ParsedModes ==
    {"IndirectY", "Indirect", "XIndirect", "Move", "Address", "Immediate",
     "LongIndirectY", "LongIndirect", "StackIndirectY"}

\* C23: every statement that statement returns is an instruction whose mode
\* is one of the nine modes of the operand parsers, never Implied or
\* Accumulator; a mnemonic followed by nothing or by whitespace only is a
\* failure; ASL A is mode Address with the variable named A as value.
C23_ModesOfStatement ==
    entry = "statement" =>
        /\ result.ok =>
               /\ result.val.tag = "Opcode"
               /\ result.val.opcode.mode.tag \in ParsedModes
               /\ result.val.opcode.mode.tag \notin {"Implied", "Accumulator"}
        /\ Lexemes(toks) \in {<<NOP>>, <<ASL>>, <<LDA>>} => ~result.ok
        /\ Lexemes(toks) = <<ASL, <<"A">>>> =>
               result = Ok(<<>>, StatementOpcode(Opcode(ASL, None, Mode("Address"),
                                   Variable(Named(VariableName(<<"A">>))))))

\* C23's case: statement has returned mode Address on `ASL A`.
C23_Witness ==
    /\ entry = "statement"
    /\ toks = <<ASL, WS, <<"A">>>>
    /\ result.ok
    /\ result.val.opcode.mode = Mode("Address")
    /\ result.val.opcode.value = Variable(Named(VariableName(<<"A">>)))

-----------------------------------------------------------------------------
(* An operator with no right operand.                                      *)

\* The chains before the operator: one operand, or two or three operands
\* with their operators.
DanglingChains == UNION {[1..n -> OPERATORS] : n \in 0..2}

\* What follows the operator: nothing, or text that starts no expression.
Junk == {<<>>, <<COLON>>, <<RP>>, <<<<"*">>>>}

DanglingLexemes(ops, d, j) == ChainLexemes(ops) \o <<<<d>>>> \o j

DanglingForms ==
    {DanglingLexemes(ops, d, j) : ops \in DanglingChains, d \in OPERATORS, j \in Junk}
    \cup {<<<<"a">>, <<d>>>> \o j : d \in OPERATORS, j \in Junk}

\* The texts `1 +` and `LDA 1 * :`.
OnePlus == <<N1.text, WS, <<"+">>>>

LdaOneTimes == <<LDA, WS, N1.text, WS, <<"*">>, WS, COLON>>

InitDangling ==
    Start(Writings(DanglingForms \cup {<<LDA>> \o f : f \in DanglingForms})
          \cup {OnePlus, LdaOneTimes})

SpecDangling == InitDangling /\ [][Next]_vars

RECURSIVE FromLexeme(_, _)
\* The text from the k-th lexeme that is not whitespace on.
FromLexeme(ts, k) ==
    IF ts = <<>> THEN <<>>
    ELSE IF Head(ts) = WS THEN FromLexeme(Tail(ts), k)
    ELSE IF k = 1 THEN Text(ts)
    ELSE FromLexeme(Tail(ts), k - 1)

\* The last character of the text that is no separator, or a separator if
\* there is none.
LastInk(text) ==
    LET ks == {k \in 1..Len(text) : text[k] \notin Separators}
    IN  IF ks = {} THEN " " ELSE text[CHOOSE k \in ks : \A j \in ks : j <= k]

\* C24: when an operator follows the operands parsed so far and no operand
\* can be parsed after it, expression returns the tree of what came before
\* the operator and leaves the text from that operator on, and statement
\* returns mode Address with that tree and that remainder; the text
\* expression has consumed never ends with an operator; `1 +` gives the
\* number 1 and leaves `+`, `LDA 1 * :` gives Address with the number 1 and
\* leaves `* :`.
C24_OperatorNeedsRightOperand ==
    /\ \A ops \in DanglingChains, d \in OPERATORS, j \in Junk :
           LET n    == Len(ops)
               tree == Reference(ops, 1, n + 1)
           IN  /\ (entry = "expression" /\ Lexemes(toks) = DanglingLexemes(ops, d, j))
                     => result = Ok(FromLexeme(toks, 2 * n + 2), tree)
               /\ (entry = "statement"
                     /\ Lexemes(toks) = <<LDA>> \o DanglingLexemes(ops, d, j))
                     => result = Ok(FromLexeme(toks, 2 * n + 3),
                                    StatementOpcode(Opcode(LDA, None, Mode("Address"),
                                                           tree)))
    /\ (entry = "expression" /\ result.ok) =>
           LastInk(Take(Text(toks), Len(Text(toks)) - Len(result.rest))) \notin OPERATORS
    /\ (entry = "expression" /\ toks = OnePlus) => result = Ok(<<"+">>, N1.ast)
    /\ (entry = "statement" /\ toks = LdaOneTimes) =>
           result = Ok(<<"*", " ", ":">>,
                       StatementOpcode(Opcode(LDA, None, Mode("Address"), N1.ast)))

\* C24's case: expression on `2 + 30 *` has returned 2 + 30 and left `*`.
C24_Witness ==
    /\ entry = "expression"
    /\ Lexemes(toks) = DanglingLexemes(<<"+">>, "*", <<>>)
    /\ HasSpace
    /\ result = Ok(<<"*">>, Binary("Add", ChainOperands[1].ast, ChainOperands[2].ast))

-----------------------------------------------------------------------------
(* A driver that parses a text piece by piece.                             *)

MaxStatements == 3

\* Instructions written one after another.
Instructions ==
    {<<LDA, N1.text>>, <<LDA, HASH, H19.text>>,
     <<LDA, LP, N19.text, RP, COMMA, <<"y">>>>, <<NOP, <<"a">>, <<"+">>, N2.text>>}

RECURSIVE Programs(_)
\* The texts of n instructions.
Programs(n) ==
    IF n = 0 THEN {<<>>}
    ELSE {i \o p : i \in Instructions, p \in Programs(n - 1)}

\* Programs, programs cut short by text that is no instruction, and the
\* short texts of the identifier section.
DriverTexts ==
    {Spaced(p \o j, 0..Len(p \o j)) :
        p \in UNION {Programs(n) : n \in 1..MaxStatements},
        j \in {<<>>, <<COLON>>, <<LDA>>, <<LP, N19.text>>}}
    \cup {SpacedSum, SpacedAssignment, HelloText, IndexedText}
    \cup {Whole(t) : t \in IdTexts}

\* The driver hands the remainder of a successful parse to the next call.
Continue ==
    /\ entry # "none"
    /\ result.ok
    /\ entry' = "none"
    /\ toks' = Whole(result.rest)
    /\ UNCHANGED <<result, calls, stack>>

NextDriver == Next \/ Continue

InitDriver == Start(DriverTexts)

SpecDriver == InitDriver /\ [][NextDriver]_vars

\* The successful calls of statement made so far.
Steps == {c \in calls : c.entry = "statement" /\ c.result.ok}

\* C25: the remainder of every successful call of identifier, expression,
\* statement or assignment is a tail of its input and strictly shorter than
\* it; a driver that applies statement to the remainder again and again
\* makes no more successful steps than its first input has characters.
C25_SuccessMakesProgress ==
    /\ \A c \in calls :
           c.result.ok =>
               /\ Len(c.result.rest) < Len(c.input)
               /\ c.result.rest = Drop(c.input, Len(c.input) - Len(c.result.rest))
    /\ \A c \in Steps :
           Cardinality({d \in Steps : Len(d.input) <= Len(c.input)}) <= Len(c.input)

\* C25's case: the driver has parsed ` LDA 1 LDA #$19 ` in two steps of
\* statement and has reached the empty text.
C25_Witness ==
    /\ toks = <<>>
    /\ entry = "none"
    /\ Cardinality(Steps) = 2
    /\ \E c \in Steps : /\ c.input = Text(Spaced(<<LDA, N1.text, LDA, HASH, H19.text>>, 0..5))
                        /\ c.result.rest = Text(Spaced(<<LDA, HASH, H19.text>>, 1..3))
    /\ \E c \in Steps : /\ c.input = Text(Spaced(<<LDA, HASH, H19.text>>, 1..3))
                        /\ c.result.rest = <<>>

-----------------------------------------------------------------------------
(* A call of statement followed step by step.                              *)

MaxNesting == 3

MaxDepth == 40

RECURSIVE Repeat(_, _)
\* n times the lexeme.
Repeat(lexeme, n) == IF n = 0 THEN <<>> ELSE <<lexeme>> \o Repeat(lexeme, n - 1)

RECURSIVE Nested(_)
\* f( f( ... 1 ... ) ) of depth n.
Nested(n) == IF n = 0 THEN <<N1.text>> ELSE <<F, LP>> \o Nested(n - 1) \o <<RP>>

\* Operands nested in parentheses, closed and not closed, nested calls, and
\* one operand of every shape.
NestedForms ==
    {<<LDA>> \o Repeat(LP, n) \o <<N1.text>> \o Repeat(RP, n) : n \in 0..MaxNesting}
    \cup {<<LDA>> \o Repeat(LP, n) \o x : n \in 1..MaxNesting, x \in {<<>>, <<N1.text>>}}
    \cup {<<LDA>> \o Nested(n) : n \in 1..MaxNesting}
    \cup {<<LDA>> \o o : o \in
            {<<>>, <<N1.text, <<"+">>, N2.text, <<"*">>, N3.text>>,
             <<N1.text, <<"*">>, N2.text, <<"-">>>>,
             <<F, LP, N1.text, COMMA, N2.text, RP>>, <<F, LP, N1.text, COMMA, RP>>,
             <<HASH, H19.text>>, <<LP, N19.text, RP, COMMA, <<"y">>>>,
             <<LP, N19.text, COMMA, <<"x">>, RP>>, <<LB, N19.text, RB, COMMA, <<"y">>>>,
             <<LP, N19.text, COMMA, <<"s">>, RP, COMMA, <<"y">>>>,
             <<N1.text, COMMA, <<"x">>>>, <<DOT, <<"w">>, <<"a">>>>}}
    \cup {<<>>, <<<<"?">>>>}

\* Each written without whitespace and with whitespace in every gap.
WalkTexts == UNION {{Spaced(f, {}), Spaced(f, 0..Len(f))} : f \in NestedForms}

InitWalk == Start(WalkTexts)

\* A parser that has been entered: the calls it will make, and which of
\* them is next.
Entered(tree) ==
    [name |-> tree.name, input |-> tree.input, cut |-> tree.cut,
     returns |-> tree.returns, todo |-> tree.calls, next |-> 1]

\* statement is entered on the text.
Enter ==
    /\ entry = "none"
    /\ entry' = "parsing"
    /\ stack' = <<Entered(CallTree("statement", Text(toks), MaxDepth))>>
    /\ UNCHANGED <<toks, result, calls>>

\* The innermost parser makes its next call.
Descend ==
    /\ entry = "parsing"
    /\ LET top == stack[Len(stack)]
       IN  /\ top.next <= Len(top.todo)
           /\ stack' = Append([stack EXCEPT ![Len(stack)].next = top.next + 1],
                              Entered(top.todo[top.next]))
    /\ UNCHANGED <<toks, entry, result, calls>>

\* The innermost parser has made all its calls and returns to its caller.
Ascend ==
    /\ entry = "parsing"
    /\ Len(stack) > 1
    /\ LET top == stack[Len(stack)]
       IN  ~top.cut /\ top.next > Len(top.todo)
    /\ stack' = SubSeq(stack, 1, Len(stack) - 1)
    /\ UNCHANGED <<toks, entry, result, calls>>

\* statement returns.
Return ==
    /\ entry = "parsing"
    /\ Len(stack) = 1
    /\ ~stack[1].cut /\ stack[1].next > Len(stack[1].todo)
    /\ entry' = "statement"
    /\ result' = stack[1].returns
    /\ calls' = calls \cup {Logged("statement", result')}
    /\ stack' = <<>>
    /\ UNCHANGED toks

NextWalk == Enter \/ Descend \/ Ascend \/ Return

\* Once entered, a parser runs on until it returns.
SpecWalk == InitWalk /\ [][NextWalk]_vars /\ WF_vars(Descend \/ Ascend \/ Return)

\* The frames of expression on the stack, outermost first.
ExpressionFrames == SelectSeq(stack, LAMBDA f : f.name = "expression")

\* The inputs handed out in turn are each shorter than the one before.
Shrinking(frames) ==
    \A j \in 1..Len(frames), k \in 1..Len(frames) :
        j < k => Len(frames[k].input) < Len(frames[j].input)

\* Every expression entered inside another has a shorter input than it and
\* than statement; the calls of every loop are on shorter and shorter
\* inputs; the stack is no deeper than the text allows.
Bounded ==
    /\ Shrinking(ExpressionFrames)
    /\ \A k \in 1..Len(ExpressionFrames) :
           Len(ExpressionFrames[k].input) < Len(Text(toks))
    /\ \A k \in 1..Len(stack) :
           /\ ~stack[k].cut
           /\ stack[k].name \in {"expression", "term", "call"}
                  => Shrinking(stack[k].todo)
    /\ Len(ExpressionFrames) <= Len(Text(toks))
    /\ Len(stack) <= 4 * Len(Text(toks)) + 4

\* C26: while statement is followed through its calls, every expression
\* entered inside another expression is entered on a shorter input, every
\* iteration of the folds of expression and term and of the argument list of
\* call is on a shorter input than the one before, the depth of the calls
\* is bounded by the length of the text, and statement returns in the end.
C26_ParsingTerminates ==
    /\ [](entry = "parsing" => Bounded)
    /\ (entry = "parsing" ~> entry = "statement")

\* C26's case: the innermost of three nested expressions of `LDA (((1)))` has
\* been entered, on `1)))`.
C26_Witness ==
    /\ entry = "parsing"
    /\ toks = <<LDA, LP, LP, LP, N1.text, RP, RP, RP>>
    /\ Len(ExpressionFrames) = 3
    /\ ExpressionFrames[3].input = <<"1", ")", ")", ")">>
    /\ stack[Len(stack)].name = "number"

-----------------------------------------------------------------------------
(* The opcode encoder.                                                     *)

\* enum AddressingMode.
AddressingMode ==
    {"Implied", "DirectPage", "Absolute", "AbsoluteLong", "Immediate", "DpIndexedX",
     "AbsoluteIndexedX", "AbsoluteIndexedY", "AbsoluteLongIndexedX", "DpIndirect",
     "DpIndexedIndirectX", "DpIndirectIndexedIndexY", "DpIndirectLong",
     "DpIndirectLongIndexedY", "StackRelative", "SrIndirectIndexedY"}

\* The byte written 0xHL.
Hex(h, l) == 16 * h + l

\* The arms of the match for "ADC", in hexadecimal digits (D = 13, E = 14,
\* F = 15).
AdcArms ==
    [DirectPage              |-> Hex(6, 5),
     Absolute                |-> Hex(6, 13),
     AbsoluteLong            |-> Hex(6, 15),
     Immediate               |-> Hex(6, 9),
     DpIndexedX              |-> Hex(7, 5),
     AbsoluteIndexedX        |-> Hex(7, 13),
     AbsoluteIndexedY        |-> Hex(7, 9),
     AbsoluteLongIndexedX    |-> Hex(7, 15),
     DpIndirect              |-> Hex(7, 2),
     DpIndexedIndirectX      |-> Hex(6, 1),
     DpIndirectIndexedIndexY |-> Hex(7, 1),
     DpIndirectLong          |-> Hex(6, 7),
     DpIndirectLongIndexedY  |-> Hex(7, 7),
     StackRelative           |-> Hex(6, 3),
     SrIndirectIndexedY      |-> Hex(7, 14)]

\* get_opcode: the arm of the pair, None when no arm matches.
get_opcode(name, addressing_mode) ==
    IF name = "ADC" /\ addressing_mode \in DOMAIN AdcArms
    THEN Some(AdcArms[addressing_mode])
    ELSE None

MaxLookups == 2

\* Mnemonics handed to the encoder: ADC as the table spells it, in lower
\* case, another mnemonic of the CPU, and the empty text.
Mnemonics == {<<"ADC">>, <<"adc">>, <<"LDA">>, <<>>}

\* The mnemonic as one text.
Mnemonic == IF toks = <<>> THEN "" ELSE toks[1]

InitEncoder == Start(Mnemonics)

\* get_opcode is called on the mnemonic and one addressing mode.
CallGetOpcode ==
    /\ Cardinality(calls) < MaxLookups
    /\ \E mode \in AddressingMode :
           /\ entry' = "get_opcode"
           /\ result' = get_opcode(Mnemonic, mode)
           /\ calls' = calls \cup {[entry |-> "get_opcode", name |-> Mnemonic,
                                    mode |-> mode, result |-> result']}
    /\ UNCHANGED <<toks, stack>>

NextEncoder == CallGetOpcode

SpecEncoder == InitEncoder /\ [][NextEncoder]_vars

\* The opcodes of ADC on the 65816, by addressing mode.
AdcOn65816 ==
    [DirectPage              |-> Hex(6, 5),
     Absolute                |-> Hex(6, 13),
     AbsoluteLong            |-> Hex(6, 15),
     Immediate               |-> Hex(6, 9),
     DpIndexedX              |-> Hex(7, 5),
     AbsoluteIndexedX        |-> Hex(7, 13),
     AbsoluteIndexedY        |-> Hex(7, 9),
     AbsoluteLongIndexedX    |-> Hex(7, 15),
     DpIndirect              |-> Hex(7, 2),
     DpIndexedIndirectX      |-> Hex(6, 1),
     DpIndirectIndexedIndexY |-> Hex(7, 1),
     DpIndirectLong          |-> Hex(6, 7),
     DpIndirectLongIndexedY  |-> Hex(7, 7),
     StackRelative           |-> Hex(6, 3),
     SrIndirectIndexedY      |-> Hex(7, 3)]

\* The calls of get_opcode made so far.
Lookups == {c \in calls : c.entry = "get_opcode"}

\* C27: every call of get_opcode on "ADC" and one of the 15 operand modes
\* has returned the 65816 opcode of ADC in that mode, two calls on "ADC"
\* with different operand modes have returned different bytes, and the call
\* on ("ADC", Implied) has returned None.
C27_AdcOpcodes ==
    /\ \A c \in Lookups :
           c.name = "ADC" =>
               c.result = IF c.mode \in DOMAIN AdcOn65816
                          THEN Some(AdcOn65816[c.mode]) ELSE None
    /\ \A c \in Lookups, d \in Lookups :
           /\ c.name = "ADC" /\ d.name = "ADC"
           /\ c.mode # d.mode /\ c.mode # "Implied" /\ d.mode # "Implied"
           => c.result # d.result

\* C27's case: get_opcode has been called on ("ADC", SrIndirectIndexedY) and
\* on ("ADC", Implied).
C27_Witness ==
    /\ toks = <<"ADC">>
    /\ {c.mode : c \in Lookups} = {"SrIndirectIndexedY", "Implied"}

\* All the texts above.
Init ==
    Start(Writings(InstructionForms \cup WidthForms \cup ChainForms \cup CallForms
                   \cup HexForms \cup LabelForms \cup NumberForms
                   \cup UnmatchedForms \cup AssignmentForms
                   \cup IncompleteAssignments \cup TopForms \cup DotForms \cup BareForms
                   \cup AccumulatorForms \cup DanglingForms)
          \cup {RelativeSum, SpacedSum, HugeSum, HelloText, SpacedAssignment, OnePlus, LdaOneTimes} \cup {Whole(t) : t \in IdTexts})

Spec == Init /\ [][Next]_vars

=============================================================================
